---- MODULE Spec2Model ----
(***************************************************************************)
(* Dryland vegetation cellular automaton: the step kernel (caStep), the    *)
(* neighbour-offset builder (buildOffsets), the state initialiser          *)
(* (initState / init) and the spatial metrics (computeMetrics,             *)
(* computeClusterMetrics) of the repository's variants                     *)
(*   "v2"   src/unnamed/part_002  (v^2 Klausmeier, w clamped to [0,2])     *)
(*   "lin1" src/unnamed/part_001  (linear uptake, long-range competition)  *)
(*   "lin3" src/unnamed/part_003  (linear uptake)                          *)
(*   "app"  src/src/App.jsx       (unseeded init(), step() on scratch      *)
(*                                 buffers, three steps a frame)           *)
(* and the React components that drive them: the frame loop, the buttons,  *)
(* the sliders, the presets and the effects that follow a render.          *)
(*                                                                         *)
(* Spec drives the kernel from the grids a run starts from; SpecSym is the *)
(* same kernel from the seeded grids of side >= 2; SpecCalls calls the     *)
(* functions on their own, with arguments drawn from bounded sets.         *)
(* SpecRun is one long run of part_002's component, SpecShort short runs   *)
(* of part_002 and part_003 with resets, SpecApp the components under      *)
(* parameter changes, frames falling between a render and its effects.     *)
(* SpecFlood is the flood fill of clusterSizes taken one stack operation   *)
(* at a time; SpecReact is the components under React's scheduling: the    *)
(* queues of the state hooks with their lanes, the animation frames that   *)
(* are pending, and the clicks and frames that fall before a render.       *)
(*                                                                         *)
(* Numbers.  A Float32Array cell holds a lattice value k, standing for     *)
(* k/Q; a parameter holds k standing for k/PQ.  The expression a cell is   *)
(* computed from is evaluated exactly (a sum of fractions) and the store   *)
(* into the Float32Array rounds it to the nearest lattice value, ties to   *)
(* even, as the store of a double into a Float32Array rounds to the        *)
(* nearest float.  NaN is a value of its own: it is what arithmetic on     *)
(* undefined (a missing field, a read outside an array) yields, and what   *)
(* Math.max / Math.min hand through.                                       *)
(* Where a claim turns on the floats themselves (the initial grid, the     *)
(* sums of computeMetrics) the values are exact binary fractions, rounded  *)
(* to 24 or 53 bits as the code's stores and operations round them.        *)
(***************************************************************************)
EXTENDS Integers, Sequences, FiniteSets, TLC

Q == 20
PQ == 200
NaN == -1

\* ---- bounds of the model ------------------------------------------------
MaxN == 3
MaxR == 2
MaxSR == 1
MaxSteps == 2

MaxRad == 4
MaxDraws == 12
MaxTicks == 2
MaxRun == 1506
MaxShort == 11
MaxEdits == 1
MaxSoil == 4

\* variant .. steps: the simulation (the variant of the source, the grid side,
\* the arrays, the state object, the parameters, the offset lists, the number of
\* calls made).  call, prev: the last call of a function on its own, with its
\* arguments and what it returned, and the call before it.
VARIABLES variant, N, heap, stateRef, density, p, wr, sr, W_OFF, S_OFF, steps,
          call, prev, params, effParams, tick, history, metrics, running, edits, used,
          gridN, baseState, baseQueue, raf, animRef, event

\* The React state of the App component: the Parameter Set of the last render
\* (params) and of the last run of its effects (effParams), the tick counter,
\* the metrics history, the last Metrics Record (<<>> for null) and the run flag;
\* edits counts the changes made to the Parameter Set through the controls, and
\* used holds the arguments of the last call of caStep (<<>> before the first)
\* The scheduling of the App component: the grid side of the last render (gridN,
\* where N is NRef.current), the pending updates of the tick counter as React
\* keeps them (baseState: the counter before the first update not yet applied,
\* baseQueue: the updates from that one on), the handles of the animation-frame
\* callbacks the browser has yet to call (raf), animRef.current (0 for null; the
\* variable frame of src/App.jsx) and the handler that ran last (event)
loopVars == <<gridN, baseState, baseQueue, raf, animRef, event>>

uiVars == <<params, effParams, tick, history, metrics, running, edits, used, loopVars>>

vars == <<variant, N, heap, stateRef, density, p, wr, sr, W_OFF, S_OFF, steps,
          call, prev, uiVars>>

\* ---- helpers ------------------------------------------------------------
\* The element of a set of one element: Only({e(x) : x \in {d}}) is e(d), with d
\* evaluated once
Only(S) == CHOOSE x \in S : TRUE

Max2(a, b) == IF a >= b THEN a ELSE b
Min2(a, b) == IF a <= b THEN a ELSE b

RECURSIVE GCD(_, _)
GCD(a, b) == IF b = 0 THEN a ELSE GCD(b, a % b)

LCM(a, b) == (a \div GCD(a, b)) * b

RECURSIVE SeqSum(_)
SeqSum(s) == IF s = <<>> THEN 0 ELSE Head(s) + SeqSum(Tail(s))

RECURSIVE LcmDen(_)
LcmDen(ts) == IF ts = <<>> THEN 1 ELSE LCM(Head(ts)[2], LcmDen(Tail(ts)))

\* The exact value of a sum of fractions <<n, d>> (d > 0), rounded to the
\* nearest integer, ties to even: the rounding of the Float32Array store.
RoundSum(ts) ==
  LET L  == LcmDen(ts)
      I  == SeqSum([k \in 1..Len(ts) |-> ts[k][1] \div ts[k][2]])
      F  == SeqSum([k \in 1..Len(ts) |-> (ts[k][1] % ts[k][2]) * (L \div ts[k][2])])
      fl == I + (F \div L)
      r  == F % L
  IN  IF 2 * r > L THEN fl + 1
      ELSE IF 2 * r < L THEN fl
      ELSE IF fl % 2 = 0 THEN fl ELSE fl + 1

\* (mutant) the ceiling forgotten
Clamp_NoCeiling(x, hi) == Max2(0, x)

\* Math.max(0, Math.min(hi, x)) on a number
Clamp(x, hi) == Max2(0, Min2(hi, x))

\* JavaScript's %: the remainder has the sign of the dividend (n > 0)
JsRem(a, n) == IF a >= 0 THEN a % n ELSE -((-a) % n)

\* (mutant) row and column swapped
Idx_Transposed(x, y, dx, dy, n) == JsRem(x + dx + n, n) * n + JsRem(y + dy + n, n)

\* (mutant) the neighbour beyond an edge is the edge cell: no wraparound
Idx_NoWrap(x, y, dx, dy, n) == Clamp(y + dy, n - 1) * n + Clamp(x + dx, n - 1)

\* (mutant) the remainder taken without adding N first
Idx_NoAdd(x, y, dx, dy, n) == JsRem(y + dy, n) * n + JsRem(x + dx, n)

\* ((y + dy + N) % N) * N + (x + dx + N) % N
Idx(x, y, dx, dy, n) == JsRem(y + dy + n, n) * n + JsRem(x + dx + n, n)

\* arr[i]: undefined outside the array, NaN in the arithmetic that follows
Read(arr, i) == IF i \in DOMAIN arr THEN arr[i] ELSE NaN

\* const { R, E, ... } = p: a field the object lacks is undefined
Get(pp, k) == IF k \in DOMAIN pp THEN pp[k] ELSE NaN

\* ---- buildOffsets --------------------------------------------------------
\* (mutant) the disk without its rim: < for <=
InDisk_Strict(dx, dy, r) == dx * dx + dy * dy < r * r

\* if (dx*dx + dy*dy <= r*r)
InDisk(dx, dy, r) == dx * dx + dy * dy <= r * r

\* for (let dx = -r; dx <= r; dx++) if (...) o.push([dx, dy])
RECURSIVE OffsetsRow(_, _, _)
OffsetsRow(r, dy, dx) ==
  IF dx > r THEN <<>>
  ELSE (IF InDisk(dx, dy, r) THEN << <<dx, dy>> >> ELSE <<>>) \o OffsetsRow(r, dy, dx + 1)

\* for (let dy = -r; dy <= r; dy++) ...
RECURSIVE OffsetsFrom(_, _)
OffsetsFrom(r, dy) ==
  IF dy > r THEN <<>> ELSE OffsetsRow(r, dy, -r) \o OffsetsFrom(r, dy + 1)

buildOffsets(r) == OffsetsFrom(r, -r)

\* ---- caStep: the per-cell expressions -------------------------------------
\* let sum = 0; for (const [dx, dy] of OFF) sum += arr[...]
NSum(arr, n, x, y, off) ==
  LET vals == [k \in 1..Len(off) |-> Read(arr, Idx(x, y, off[k][1], off[k][2], n))]
  IN  IF \E k \in 1..Len(off) : vals[k] = NaN THEN NaN ELSE SeqSum(vals)

\* (mutant) the neighbourhood sum used where its mean belongs
NewW_v2_NoMean(a, b, wsum, wlen, pp) ==
  LET R == Get(pp, "R")  E == Get(pp, "E")  alpha == Get(pp, "alpha")  wd == Get(pp, "wd")
  IN  IF NaN \in {a, b, wsum, R, E, alpha, wd} \/ wlen = 0 THEN NaN
      ELSE Clamp(RoundSum(<< <<b, 1>>, <<R * Q, PQ>>, <<-(E * b), PQ>>,
                             <<-(alpha * a * a * b), PQ * Q * Q>>,
                             <<wd * (wsum - b), PQ>> >>), 2 * Q)

\* part_002: nw[i] = max(0, min(2, wi + R - E*wi - alpha*vi*vi*wi + wd*(wmean - wi)))
NewW_v2(a, b, wsum, wlen, pp) ==
  LET R == Get(pp, "R")  E == Get(pp, "E")  alpha == Get(pp, "alpha")  wd == Get(pp, "wd")
  IN  IF NaN \in {a, b, wsum, R, E, alpha, wd} \/ wlen = 0 THEN NaN
      ELSE Clamp(RoundSum(<< <<b, 1>>, <<R * Q, PQ>>, <<-(E * b), PQ>>,
                             <<-(alpha * a * a * b), PQ * Q * Q>>,
                             <<wd * (wsum - wlen * b), PQ * wlen>> >>), 2 * Q)

\* (mutant) a cell is colonised whether or not a neighbour bears seed
NewV_v2_Spontaneous(a, b, s, vsum, slen, pp) ==
  LET alpha == Get(pp, "alpha")  mort == Get(pp, "mort")  eps == Get(pp, "eps")
  IN  IF NaN \in {a, b, s, vsum, alpha, mort, eps} \/ slen = 0 THEN NaN
      ELSE Clamp(RoundSum(<< <<a, 1>>,
                             <<alpha * a * a * b * (2 * Q + s), PQ * Q * Q * 2 * Q>>,
                             <<-(mort * a), PQ>>,
                             <<eps * b * (Q - a), PQ * Q>> >>), Q)

\* part_002: nv[i] = max(0, min(1, vi + alpha*vi*vi*wi*(1 + 0.5*si) - mort*vi
\*                                  + eps*vseed*wi*(1 - vi)))
NewV_v2(a, b, s, vsum, slen, pp) ==
  LET alpha == Get(pp, "alpha")  mort == Get(pp, "mort")  eps == Get(pp, "eps")
  IN  IF NaN \in {a, b, s, vsum, alpha, mort, eps} \/ slen = 0 THEN NaN
      ELSE Clamp(RoundSum(<< <<a, 1>>,
                             <<alpha * a * a * b * (2 * Q + s), PQ * Q * Q * 2 * Q>>,
                             <<-(mort * a), PQ>>,
                             <<eps * vsum * b * (Q - a), PQ * slen * Q * Q>> >>), Q)

\* (mutant) the degradation acts under cover instead of on bare ground
NewS_LossUnderCover(a, s, pp) ==
  LET gp == Get(pp, "gp")  gm == Get(pp, "gm")
  IN  IF NaN \in {a, s, gp, gm} THEN NaN
      ELSE Clamp(RoundSum(<< <<s, 1>>, <<gp * a * (Q - s), PQ * Q>>,
                             <<-(gm * a * s), PQ * Q>> >>), Q)

\* nσ[i] = max(0, min(1, si + gp*vi*(1 - si) - gm*(1 - vi)*si))
NewS(a, s, pp) ==
  LET gp == Get(pp, "gp")  gm == Get(pp, "gm")
  IN  IF NaN \in {a, s, gp, gm} THEN NaN
      ELSE Clamp(RoundSum(<< <<s, 1>>, <<gp * a * (Q - s), PQ * Q>>,
                             <<-(gm * (Q - a) * s), PQ * Q>> >>), Q)

\* part_001: nw[i] = clamp(wi + R - E*wi - vi*wi*(1 + si) - 0.7*vLong*wi + 0.8*wflow)
NewW_lin1(a, b, s, wsum, vlsum, wlen, pp) ==
  LET R == Get(pp, "R")  E == Get(pp, "E")
  IN  IF NaN \in {a, b, s, wsum, vlsum, R, E} \/ wlen = 0 THEN NaN
      ELSE Clamp(RoundSum(<< <<b, 1>>, <<R * Q, PQ>>, <<-(E * b), PQ>>,
                             <<-(a * b * (Q + s)), Q * Q>>,
                             <<-(7 * vlsum * b), 10 * wlen * Q>>,
                             <<8 * (wsum - wlen * b), 10 * wlen>> >>), Q)

\* part_003: nw[i] = max(0, min(1, w + R - E*w - v*w*(1 + sig) + 0.35*wFlow))
NewW_lin3(a, b, s, wsum, wlen, pp) ==
  LET R == Get(pp, "R")  E == Get(pp, "E")
  IN  IF NaN \in {a, b, s, wsum, R, E} \/ wlen = 0 THEN NaN
      ELSE Clamp(RoundSum(<< <<b, 1>>, <<R * Q, PQ>>, <<-(E * b), PQ>>,
                             <<-(a * b * (Q + s)), Q * Q>>,
                             <<35 * (wsum - wlen * b), 100 * wlen>> >>), Q)

\* part_001, part_003: nv[i] = clamp(vi + (alpha*wi*si / (1 + beta*wi))*vi - mort*vi
\*                                   + eps*vseed*(1 - vi))
NewV_lin(a, b, s, vsum, slen, pp) ==
  LET alpha == Get(pp, "alpha")  beta == Get(pp, "beta")
      mort == Get(pp, "mort")    eps == Get(pp, "eps")
  IN  IF NaN \in {a, b, s, vsum, alpha, beta, mort, eps} \/ slen = 0 THEN NaN
      ELSE Clamp(RoundSum(<< <<a, 1>>,
                             <<alpha * b * s * a, Q * (PQ * Q + beta * b)>>,
                             <<-(mort * a), PQ>>,
                             <<eps * vsum * (Q - a), PQ * slen * Q>> >>), Q)

\* src/App.jsx: nw[i] = clamp(wi + R - E*wi - vi*wi*(1 + si) - longComp*vLong*wi
\*                            + waterDiff*wflow), longComp = 0.6, waterDiff = 0.8
NewW_app(a, b, s, wsum, vlsum, wlen, pp) ==
  LET R == Get(pp, "R")  E == Get(pp, "E")
  IN  IF NaN \in {a, b, s, wsum, vlsum, R, E} \/ wlen = 0 THEN NaN
      ELSE Clamp(RoundSum(<< <<b, 1>>, <<R * Q, PQ>>, <<-(E * b), PQ>>,
                             <<-(a * b * (Q + s)), Q * Q>>,
                             <<-(6 * vlsum * b), 10 * wlen * Q>>,
                             <<8 * (wsum - wlen * b), 10 * wlen>> >>), Q)

\* src/App.jsx: ns[i] = clamp(si + 0.06*vi - 0.04*si)
NewS_app(a, s) ==
  IF NaN \in {a, s} THEN NaN
  ELSE Clamp(RoundSum(<< <<s, 1>>, <<6 * a, 100>>, <<-(4 * s), 100>> >>), Q)

\* One cell of the three new arrays, from the old arrays only.
CellW(var, v, w, s, pp, n, woff, i) ==
  LET x == i % n  y == i \div n
      wsum == NSum(w, n, x, y, woff)
  IN  IF var = "v2" THEN NewW_v2(v[i], w[i], wsum, Len(woff), pp)
      ELSE IF var = "lin1"
        THEN NewW_lin1(v[i], w[i], s[i], wsum, NSum(v, n, x, y, woff), Len(woff), pp)
      ELSE IF var = "app"
        THEN NewW_app(v[i], w[i], s[i], wsum, NSum(v, n, x, y, woff), Len(woff), pp)
        ELSE NewW_lin3(v[i], w[i], s[i], wsum, Len(woff), pp)

CellV(var, v, w, s, pp, n, soff, i) ==
  LET x == i % n  y == i \div n
      vsum == NSum(v, n, x, y, soff)
  IN  IF var = "v2" THEN NewV_v2(v[i], w[i], s[i], vsum, Len(soff), pp)
      ELSE NewV_lin(v[i], w[i], s[i], vsum, Len(soff), pp)

CellS(var, v, w, s, pp, i) ==
  IF var = "app" THEN NewS_app(v[i], s[i]) ELSE NewS(v[i], s[i], pp)

\* new Float32Array(N * N): N*N cells, all 0; the loops run only for N > 0
Cells(n) == 0 .. (n * n - 1)

\* The three arrays caStep fills, as values.
caStepArrays(var, st, pp, n, woff, soff) ==
  [v |-> [i \in Cells(n) |-> IF n > 0 THEN CellV(var, st.v, st.w, st.s, pp, n, soff, i) ELSE 0],
   w |-> [i \in Cells(n) |-> IF n > 0 THEN CellW(var, st.v, st.w, st.s, pp, n, woff, i) ELSE 0],
   s |-> [i \in Cells(n) |-> IF n > 0 THEN CellS(var, st.v, st.w, st.s, pp, i) ELSE 0]]

\* ---- the linear congruential generator of initState -----------------------
\* A 32-bit word is the pair <<hi, lo>> of its 16-bit halves; a larger natural
\* is <<c2, c1, c0>> in base 2^16.
B16 == 65536

\* let s = seed | 0, as an unsigned word (two's complement for seed < 0)
ToWord(seed) ==
  IF seed >= 0 THEN <<(seed \div B16) % B16, seed % B16>>
  ELSE <<(B16 - 1) - ((((-seed) - 1) \div B16) % B16), (B16 - 1) - (((-seed) - 1) % B16)>>

\* s = (s * 1664525 + 1013904223) & 0xffffffff
\* 1664525 = 25 * 2^16 + 26125, 1013904223 = 15470 * 2^16 + 62303
LcgNext(s) ==
  LET t0 == s[2] * 26125 + 62303
      t1 == s[1] * 26125 + s[2] * 25 + 15470 + (t0 \div B16)
  IN  <<t1 % B16, t0 % B16>>

Big(s) == <<0, s[1], s[2]>>

\* 0xffffffff
BigM == <<0, B16 - 1, B16 - 1>>

BigMul(x, k) ==
  LET t0 == x[3] * k
      t1 == x[2] * k + (t0 \div B16)
      t2 == x[1] * k + (t1 \div B16)
  IN  <<t2, t1 % B16, t0 % B16>>

BigAdd(x, y) ==
  LET t0 == x[3] + y[3]
      t1 == x[2] + y[2] + (t0 \div B16)
  IN  <<x[1] + y[1] + (t1 \div B16), t1 % B16, t0 % B16>>

BigLess(x, y) ==
  \/ x[1] < y[1]
  \/ x[1] = y[1] /\ x[2] < y[2]
  \/ x[1] = y[1] /\ x[2] = y[2] /\ x[3] < y[3]

\* ---- the generator as JavaScript evaluates it -----------------------------------
\* s holds an int32, here as its bit pattern <<hi, lo>>; s * 1664525 + 1013904223
\* is arithmetic on doubles (53 bits of significand), `& 0xffffffff` takes the
\* result modulo 2^32.  A magnitude below 2^64 is <<m3, m2, m1, m0>> in base 2^16.
Mag4Add(x, y) ==
  LET t0 == x[4] + y[4]
      t1 == x[3] + y[3] + (t0 \div B16)
      t2 == x[2] + y[2] + (t1 \div B16)
  IN  <<x[1] + y[1] + (t2 \div B16), t2 % B16, t1 % B16, t0 % B16>>

\* x - y for x >= y
Mag4Sub(x, y) ==
  LET t0 == x[4] - y[4]
      t1 == x[3] - y[3] + (t0 \div B16)
      t2 == x[2] - y[2] + (t1 \div B16)
  IN  <<x[1] - y[1] + (t2 \div B16), t2 % B16, t1 % B16, t0 % B16>>

Mag4Less(x, y) ==
  \E k \in 1..4 : x[k] < y[k] /\ \A j \in 1..(k - 1) : x[j] = y[j]

\* The int32 of a bit pattern, as sign and magnitude
SignedOf(u) ==
  IF u[1] < B16 \div 2 THEN [neg |-> FALSE, mag |-> <<0, 0, u[1], u[2]>>]
  ELSE [neg |-> TRUE, mag |-> Mag4Sub(<<0, 1, 0, 0>>, <<0, 0, u[1], u[2]>>)]

\* |s| * 1664525, with 1664525 = 25 * 2^16 + 26125
MulA(m) ==
  LET t0 == m[4] * 26125
      t1 == m[3] * 26125 + m[4] * 25 + (t0 \div B16)
      t2 == m[2] * 26125 + m[3] * 25 + (t1 \div B16)
      t3 == m[2] * 25 + (t2 \div B16)
  IN  <<t3 % B16, t2 % B16, t1 % B16, t0 % B16>>

RECURSIVE BitLen(_)
BitLen(k) == IF k = 0 THEN 0 ELSE 1 + BitLen(k \div 2)

RECURSIVE Pow2(_)
Pow2(e) == IF e = 0 THEN 1 ELSE 2 * Pow2(e - 1)

\* The double nearest to a magnitude below 2^64: itself below 2^53, else rounded
\* to 53 significant bits, ties to even
RoundDouble(m) ==
  IF m[1] < 32 THEN m
  ELSE LET e    == BitLen(m[1]) - 5
           unit == Pow2(e)
           low  == m[4] % unit
           down == <<m[1], m[2], m[3], m[4] - low>>
           up   == Mag4Add(down, <<0, 0, 0, unit>>)
       IN  IF 2 * low > unit THEN up
           ELSE IF 2 * low < unit THEN down
           ELSE IF (m[4] \div unit) % 2 = 0 THEN down ELSE up

\* (mutant) the mask one bit short: & 0x7fffffff
Mask_31Bits(t) ==
  IF t.neg /\ (t.mag[3] # 0 \/ t.mag[4] # 0)
    THEN LET u == Mag4Sub(<<0, 1, 0, 0>>, <<0, 0, t.mag[3], t.mag[4]>>)
         IN  <<u[3] % (B16 \div 2), u[4]>>
    ELSE <<t.mag[3] % (B16 \div 2), t.mag[4]>>

\* t & 0xffffffff: the bit pattern of t modulo 2^32
Mask(t) ==
  IF t.neg /\ (t.mag[3] # 0 \/ t.mag[4] # 0)
    THEN LET u == Mag4Sub(<<0, 1, 0, 0>>, <<0, 0, t.mag[3], t.mag[4]>>)
         IN  <<u[3], u[4]>>
    ELSE <<t.mag[3], t.mag[4]>>

\* s = (s * 1664525 + 1013904223) & 0xffffffff, on the bit pattern of s
rngStep(u) ==
  LET s    == SignedOf(u)
      prod == RoundDouble(MulA(s.mag))
      c    == <<0, 0, 15470, 62303>>
      sum  == IF ~s.neg THEN [neg |-> FALSE, mag |-> RoundDouble(Mag4Add(prod, c))]
              ELSE IF Mag4Less(c, prod)
                THEN [neg |-> TRUE, mag |-> RoundDouble(Mag4Sub(prod, c))]
                ELSE [neg |-> FALSE, mag |-> Mag4Sub(c, prod)]
  IN  Mask(sum)

\* rng() < density, with rng() = (s >>> 0) / 0xffffffff and density = dh/100
RngBelow(s, dh) == BigLess(BigMul(Big(s), 100), BigMul(BigM, dh))

\* The Float32Array cell that stores bh/100 + rng() * sh/100: the lattice value
\* nearest to Q * (bh * M + sh * u) / (100 * M), ties to even.
RngCell(s, bh, sh) ==
  LET X2 == BigMul(BigAdd(BigMul(BigM, bh), BigMul(Big(s), sh)), 2 * Q)
      lo == (Q * bh) \div 100
      hi == (Q * (bh + sh)) \div 100 + 1
      Up(j) == LET T == BigMul(BigM, (2 * j - 1) * 100)
               IN  BigLess(T, X2) \/ (T = X2 /\ j % 2 = 0)
      js == {j \in (lo + 1)..hi : Up(j)}
  IN  IF js = {} THEN lo ELSE CHOOSE j \in js : \A k \in js : k <= j

\* One cell of initState: the draws in the order of the code.  ranges gives, in
\* hundredths, <<base, span>> of v, of w and σ of a vegetated cell, and of w and σ
\* of a bare cell.
InitCell(s0, dh, rg) ==
  LET s1 == LcgNext(s0)
      veg == RngBelow(s1, dh)
      s2 == IF veg THEN LcgNext(s1) ELSE s1
      vv == IF veg THEN RngCell(s2, rg.v[1], rg.v[2]) ELSE 0
      s3 == LcgNext(s2)
      s4 == LcgNext(s3)
  IN  [v |-> vv,
       w |-> IF vv > 0 THEN RngCell(s3, rg.wVeg[1], rg.wVeg[2])
                       ELSE RngCell(s3, rg.wBare[1], rg.wBare[2]),
       s |-> IF vv > 0 THEN RngCell(s4, rg.sVeg[1], rg.sVeg[2])
                       ELSE RngCell(s4, rg.sBare[1], rg.sBare[2]),
       rng |-> s4]

\* for (let i = 0; i < N * N; i++) { v[i] = ...; w[i] = ...; σ[i] = ...; }
RECURSIVE InitLoop(_, _, _, _, _, _)
InitLoop(i, n2, s0, dh, rg, acc) ==
  IF i >= n2 THEN acc
  ELSE LET c == InitCell(s0, dh, rg)
       IN  InitLoop(i + 1, n2, c.rng, dh, rg,
                    [v |-> acc.v @@ (i :> c.v), w |-> acc.w @@ (i :> c.w),
                     s |-> acc.s @@ (i :> c.s)])

\* The ranges of the three seeded initialisers.
Ranges(var) ==
  IF var = "v2"
    THEN [v |-> <<20, 60>>, wVeg |-> <<10, 15>>, wBare |-> <<45, 20>>,
          sVeg |-> <<40, 40>>, sBare |-> <<10, 20>>]
  ELSE IF var = "lin1"
    THEN [v |-> <<30, 20>>, wVeg |-> <<30, 20>>, wBare |-> <<30, 20>>,
          sVeg |-> <<30, 20>>, sBare |-> <<30, 20>>]
    ELSE [v |-> <<20, 50>>, wVeg |-> <<20, 30>>, wBare |-> <<20, 30>>,
          sVeg |-> <<40, 40>>, sBare |-> <<10, 20>>]

\* initState(N, seed, density): three new arrays of N*N cells (density in
\* hundredths; part_003 fixes it to 0.25 and N to its constant).
initState(var, n, seed, dh) ==
  InitLoop(0, n * n, ToWord(seed), IF var = "lin3" THEN 25 ELSE dh, Ranges(var),
           [v |-> <<>>, w |-> <<>>, s |-> <<>>])

\* ---- the Float32Array store of initState, bit for bit ----------------------------
\* x * c for a magnitude x and 0 <= c <= 2^14
Mag4Scale(x, c) ==
  LET t0 == x[4] * c
      t1 == x[3] * c + (t0 \div B16)
      t2 == x[2] * c + (t1 \div B16)
      t3 == x[1] * c + (t2 \div B16)
  IN  <<t3, t2 % B16, t1 % B16, t0 % B16>>

\* x * j for 0 <= j <= 2^24
Mag4Times(x, j) ==
  Mag4Add(Mag4Scale(Mag4Scale(x, j \div 4096), 4096), Mag4Scale(x, j % 4096))

\* The largest q of at most `bit` + 1 bits above q0 with q * den <= x
RECURSIVE Mag4Quot(_, _, _, _)
Mag4Quot(x, den, bit, q0) ==
  IF bit < 0 THEN q0
  ELSE LET q1 == q0 + Pow2(bit)
       IN  IF Mag4Less(x, Mag4Times(den, q1)) THEN Mag4Quot(x, den, bit - 1, q0)
           ELSE Mag4Quot(x, den, bit - 1, q1)

\* The float nearest to num/den, for 1/32 <= num/den < 1, ties to even: the
\* significand m of 24 bits and the exponent k of the value m / 2^k
Fround(num, den) ==
  LET k    == IF ~Mag4Less(Mag4Scale(num, 2), den) THEN 24
              ELSE IF ~Mag4Less(Mag4Scale(num, 4), den) THEN 25
              ELSE IF ~Mag4Less(Mag4Scale(num, 8), den) THEN 26
              ELSE IF ~Mag4Less(Mag4Scale(num, 16), den) THEN 27 ELSE 28
      x    == Mag4Scale(Mag4Scale(num, Pow2(14)), Pow2(k - 14))
      q    == Mag4Quot(x, den, 24, 0)
      rem2 == Mag4Scale(Mag4Sub(x, Mag4Times(den, q)), 2)
      m    == IF Mag4Less(den, rem2) THEN q + 1
              ELSE IF Mag4Less(rem2, den) THEN q
              ELSE q + (q % 2)
  IN  IF m = Pow2(24) THEN [m |-> Pow2(23), k |-> k - 1] ELSE [m |-> m, k |-> k]

\* The float 0
F32Zero == [m |-> 0, k |-> 0]

\* The Float32Array cell that stores bh/100 + rng() * sh/100 with the generator
\* at the word s: the float nearest to (bh * M + sh * s) / (100 * M).  (The
\* roundings of the double arithmetic, below 2^-50, are left out: they change the
\* stored float only for a value within that distance of the middle of two
\* floats.)
RngCell32(s, bh, sh) ==
  LET M4 == <<0, 0, B16 - 1, B16 - 1>>
  IN  Fround(Mag4Add(Mag4Scale(M4, bh), Mag4Scale(<<0, 0, s[1], s[2]>>, sh)),
             Mag4Scale(M4, 100))

\* One cell of initState with its three stores, the draws in the order of the code
InitCell32(s0, dh, rg) ==
  LET s1 == LcgNext(s0)
      veg == RngBelow(s1, dh)
      s2 == IF veg THEN LcgNext(s1) ELSE s1
      s3 == LcgNext(s2)
      s4 == LcgNext(s3)
  IN  [v |-> IF veg THEN RngCell32(s2, rg.v[1], rg.v[2]) ELSE F32Zero,
       w |-> IF veg THEN RngCell32(s3, rg.wVeg[1], rg.wVeg[2])
                    ELSE RngCell32(s3, rg.wBare[1], rg.wBare[2]),
       s |-> IF veg THEN RngCell32(s4, rg.sVeg[1], rg.sVeg[2])
                    ELSE RngCell32(s4, rg.sBare[1], rg.sBare[2]),
       rng |-> s4]

RECURSIVE InitLoop32(_, _, _, _, _, _)
InitLoop32(i, n2, s0, dh, rg, acc) ==
  IF i >= n2 THEN acc
  ELSE LET c == InitCell32(s0, dh, rg)
       IN  InitLoop32(i + 1, n2, c.rng, dh, rg,
                      [v |-> acc.v @@ (i :> c.v), w |-> acc.w @@ (i :> c.w),
                       s |-> acc.s @@ (i :> c.s)])

\* (mutant) a vegetated cell is given the water of a bare one
Ranges32_WetCover == [Ranges("v2") EXCEPT !.wVeg = <<45, 20>>]

\* The ranges of part_002's initState
Ranges32 == Ranges("v2")

\* part_002 initState(N, seed, initDensity), its cells the floats stored
initState32(n, seed, dh) ==
  InitLoop32(0, n * n, ToWord(seed), dh, Ranges32, [v |-> <<>>, w |-> <<>>, s |-> <<>>])

\* ---- computeMetrics / computeClusterMetrics ------------------------------------
\* v[i] < thr and v[i] >= thr with thr = 0.15; both are false of NaN
BelowThr(a) == a # NaN /\ a * 100 < 15 * Q
AtLeastThr(a) == a # NaN /\ a * 100 >= 15 * Q

\* (mutant) the fill looks right and down only
FloodDirs_TwoWay == << <<1, 0>>, <<0, 1>> >>

\* for (const [dx, dy] of [[1,0],[-1,0],[0,1],[0,-1]])
FloodDirs == << <<1, 0>>, <<-1, 0>>, <<0, 1>>, <<0, -1>> >>

\* (mutant) the neighbour is pushed without being marked visited
RECURSIVE Visit_NoMark(_, _, _, _, _, _)
Visit_NoMark(v, n, cur, k, visited, q) ==
  IF k > Len(FloodDirs) THEN [visited |-> visited, q |-> q]
  ELSE LET ni == Idx(cur % n, cur \div n, FloodDirs[k][1], FloodDirs[k][2], n)
       IN  IF ni \notin visited /\ AtLeastThr(Read(v, ni))
             THEN Visit_NoMark(v, n, cur, k + 1, visited, Append(q, ni))
             ELSE Visit_NoMark(v, n, cur, k + 1, visited, q)

\* const ni = ...; if (!visited[ni] && v[ni] >= thr) { visited[ni] = 1; q.push(ni); }
RECURSIVE Visit(_, _, _, _, _, _)
Visit(v, n, cur, k, visited, q) ==
  IF k > Len(FloodDirs) THEN [visited |-> visited, q |-> q]
  ELSE LET ni == Idx(cur % n, cur \div n, FloodDirs[k][1], FloodDirs[k][2], n)
       IN  IF ni \notin visited /\ AtLeastThr(Read(v, ni))
             THEN Visit(v, n, cur, k + 1, visited \cup {ni}, Append(q, ni))
             ELSE Visit(v, n, cur, k + 1, visited, q)

\* while (q.length) { const cur = q.pop(); sz++; ... }
RECURSIVE Flood(_, _, _, _, _)
Flood(v, n, visited, q, sz) ==
  IF q = <<>> THEN [visited |-> visited, sz |-> sz]
  ELSE LET cur == q[Len(q)]
           nx  == Visit(v, n, cur, 1, visited, SubSeq(q, 1, Len(q) - 1))
       IN  Flood(v, n, nx.visited, nx.q, sz + 1)

\* for (let start = 0; start < N * N; start++) { if (v[start] < thr || visited[start])
\*   continue; let q = [start], sz = 0; visited[start] = 1; ...; sizes.push(sz); }
RECURSIVE ClusterScan(_, _, _, _, _)
ClusterScan(v, n, start, visited, sizes) ==
  IF start >= n * n THEN sizes
  ELSE IF BelowThr(v[start]) \/ start \in visited
    THEN ClusterScan(v, n, start + 1, visited, sizes)
    ELSE LET f == Flood(v, n, visited \cup {start}, <<start>>, 0)
         IN  ClusterScan(v, n, start + 1, f.visited, Append(sizes, f.sz))

clusterSizes(v, n) == ClusterScan(v, n, 0, {}, <<>>)

RECURSIVE SeqMax(_)
SeqMax(s) == IF s = <<>> THEN 0 ELSE Max2(Head(s), SeqMax(Tail(s)))

\* part_003 computeClusterMetrics: the mean is the fraction <<sum, count>>, 0 as
\* <<0, 1>> when there is no cluster
computeClusterMetrics(v, n) ==
  LET sizes == clusterSizes(v, n)
  IN  [meanCluster |-> IF Len(sizes) > 0 THEN <<SeqSum(sizes), Len(sizes)>> ELSE <<0, 1>>,
       maxCluster  |-> SeqMax(sizes),
       numClusters |-> Len(sizes)]

ArrSum(arr, n) == SeqSum([k \in 1..(n * n) |-> arr[k - 1]])

\* (v[i] - vm) in units of 1/(Q * N*N)
Dev(v, n, i) == v[i] * (n * n) - ArrSum(v, n)

\* (mutant) the quotient taken whatever the variance: 0/0 is NaN
MoranOf_NoGuard(sum, cnt, sq) == <<sum, cnt * sq>>

\* moran = vvar > 0 ? moran / (moranC * vvar) : 0, where sum is moran, cnt is
\* moranC / N^2 and sq is vvar * N^2, all three in the units of Dev
MoranOf(sum, cnt, sq) == IF sq > 0 THEN <<sum, cnt * sq>> ELSE <<0, 1>>

\* (mutant) the second pair of a cell is its diagonal neighbour
MoranPairs_Diagonal == << <<1, 0>>, <<1, 1>> >>

\* moran += (v[i] - vm) * (v[j] - vm) over the pairs [1,0] and [0,1] of every cell
MoranPairs == << <<1, 0>>, <<0, 1>> >>
MoranSum(v, n) ==
  SeqSum([k \in 1..(n * n) |->
            SeqSum([d \in 1..Len(MoranPairs) |->
                      Dev(v, n, k - 1)
                      * Dev(v, n, Idx((k - 1) % n, (k - 1) \div n,
                                      MoranPairs[d][1], MoranPairs[d][2], n))])])

SqDevSum(v, n) == SeqSum([k \in 1..(n * n) |-> Dev(v, n, k - 1) * Dev(v, n, k - 1)])

\* ---- computeMetrics in the double arithmetic of JavaScript, on a grid of side 2 ----
\* The numbers are integers in one unit (a power of 2) and below 2^64, so that
\* every exact sum and product is such an integer and the result of the
\* operation is the double nearest to it (RoundDouble).  A signed one is
\* [neg, mag].
\* a * b for 0 <= a, b < 2^31
Mag4Mul(a, b) ==
  LET x == <<0, 0, a \div B16, a % B16>>
  IN  Mag4Add(Mag4Scale(Mag4Scale(Mag4Scale(x, b \div Pow2(24)), 4096), 4096),
              Mag4Add(Mag4Scale(Mag4Scale(x, (b \div 4096) % 4096), 4096),
                      Mag4Scale(x, b % 4096)))

Abs(a) == IF a < 0 THEN -a ELSE a

\* x + y in doubles
SAdd(x, y) ==
  IF x.neg = y.neg THEN [neg |-> x.neg, mag |-> RoundDouble(Mag4Add(x.mag, y.mag))]
  ELSE IF Mag4Less(x.mag, y.mag) THEN [neg |-> y.neg, mag |-> RoundDouble(Mag4Sub(y.mag, x.mag))]
  ELSE IF x.mag = y.mag THEN [neg |-> FALSE, mag |-> <<0, 0, 0, 0>>]
  ELSE [neg |-> x.neg, mag |-> RoundDouble(Mag4Sub(x.mag, y.mag))]

\* a * b in doubles, for integers a and b
SMul(a, b) ==
  [neg |-> (a < 0) # (b < 0) /\ a # 0 /\ b # 0, mag |-> RoundDouble(Mag4Mul(Abs(a), Abs(b)))]

RECURSIVE SSum(_, _)
SSum(acc, ts) == IF ts = <<>> THEN acc ELSE SSum(SAdd(acc, Head(ts)), Tail(ts))

\* The float f as an integer in the unit 2^-28
F32Int(f) == IF f.m = 0 THEN 0 ELSE f.m * Pow2(28 - f.k)

\* (mutant) the pairs are counted once a cell: moranC = N * N
MoranCount64_OncePerCell(n) == n * n

\* moranC after the loops: one for each pair of each of the N * N cells
MoranCount64(n) == Len(MoranPairs) * n * n

\* computeMetrics(state, 2) as far as moran: v holds the four floats of state.v.
\* vS and vm = vS / 4 are exact; with D[i] = 4 * v[i] - vS the deviation
\* v[i] - vm is D[i] in the unit 2^-30, and the squares and products are in the
\* unit 2^-60.  vvar /= 4 and moranC * vvar only move the exponent.
\* Returns moran (before the division) and moranC * vvar in that unit.
computeMetrics64(v) ==
  LET zero == [neg |-> FALSE, mag |-> <<0, 0, 0, 0>>]
      vS   == F32Int(v[0]) + F32Int(v[1]) + F32Int(v[2]) + F32Int(v[3])
      D    == [i \in Cells(2) |-> 4 * F32Int(v[i]) - vS]
      vvar == SSum(zero, [k \in 1..4 |-> SMul(D[k - 1], D[k - 1])])
      mo   == SSum(zero, [k \in 1..8 |->
                 LET i == (k - 1) \div 2
                     d == MoranPairs[((k - 1) % 2) + 1]
                 IN  SMul(D[i], D[Idx(i % 2, i \div 2, d[1], d[2], 2)])])
  IN  [moran |-> mo, den |-> Mag4Scale(vvar.mag, MoranCount64(2) \div 4), vvar |-> vvar.mag]

\* part_002 computeMetrics(state, N).  Means, vvar and moran are fractions
\* <<numerator, denominator>>, NaN the fraction 0/0; vvar of a grid that holds a
\* NaN is NaN, and then `vvar > 0` is false.
computeMetrics(st, n) ==
  LET n2    == n * n
      bad   == \E i \in Cells(n) : st.v[i] = NaN
      sq    == SqDevSum(st.v, n)
      sizes == clusterSizes(st.v, n)
  IN  [vm   |-> IF bad THEN <<0, 0>> ELSE <<ArrSum(st.v, n), Q * n2>>,
       wm   |-> <<ArrSum(st.w, n), Q * n2>>,
       sm   |-> <<ArrSum(st.s, n), Q * n2>>,
       vvar |-> IF bad THEN <<0, 0>> ELSE <<sq, Q * Q * n2 * n2 * n2>>,
       moran |-> IF bad THEN <<0, 1>>
                 ELSE MoranOf(MoranSum(st.v, n), Len(MoranPairs), sq),
       maxCluster  |-> SeqMax(sizes),
       numClusters |-> Len(sizes)]

\* ---- arrays as objects ------------------------------------------------------
\* heap maps the identity of a Float32Array to its cells; a state object is the
\* record of the identities of its v, w and σ arrays.  An identity that no live
\* object refers to is garbage, and `new Float32Array` takes one.
ArrIds == 1..6

SetMin(S) == CHOOSE a \in S : \A b \in S : a <= b

Live(st) == {st.v, st.w, st.s}

\* const nv = new ..., nw = new ..., nσ = new ...: three arrays that are not live
FreshIds(st) ==
  LET f1 == ArrIds \ Live(st)
      a  == SetMin(f1)
      b  == SetMin(f1 \ {a})
      c  == SetMin(f1 \ {a, b})
  IN  [v |-> a, w |-> b, s |-> c]

Deref(h, st) == [v |-> h[st.v], w |-> h[st.w], s |-> h[st.s]]

\* (mutant) the step writes into the arrays it reads and returns them
StepTarget_InPlace(st) == st

\* The arrays a call of caStep writes and the state object it returns.
StepTarget(st) == FreshIds(st)

\* caStep(state, p, N, W_OFF, S_OFF): the heap after the call and the object returned
caStep(var, h, st, pp, n, woff, soff) ==
  LET new == caStepArrays(var, Deref(h, st), pp, n, woff, soff)
      to  == StepTarget(st)
  IN  [heap |-> [h EXCEPT ![to.v] = new.v, ![to.w] = new.w, ![to.s] = new.s],
       ret  |-> to]

\* ---- parameter sets ---------------------------------------------------------
Variants == {"v2", "lin1", "lin3"}

\* The presets and the ends of the slider ranges, in units of 1/PQ, and the
\* all-zero set of the conservation test.
Preset(var) ==
  IF var = "v2"
    THEN [R |-> 48, E |-> 80, alpha |-> 800, mort |-> 64, eps |-> 10,
          gp |-> 12, gm |-> 6, wd |-> 16]
  ELSE IF var = "lin1"
    THEN [R |-> 44, E |-> 90, alpha |-> 800, beta |-> 400, mort |-> 36, eps |-> 2,
          gp |-> 12, gm |-> 8]
    ELSE [R |-> 56, E |-> 90, alpha |-> 640, beta |-> 400, mort |-> 36, eps |-> 8,
          gp |-> 12, gm |-> 6]

SliderMin(var) ==
  IF var = "v2"
    THEN [R |-> 10, E |-> 20, alpha |-> 200, mort |-> 10, eps |-> 1,
          gp |-> 2, gm |-> 1, wd |-> 2]
    ELSE [R |-> 20, E |-> 40, alpha |-> 200, beta |-> 100, mort |-> 10, eps |-> 2,
          gp |-> 2, gm |-> 1]

SliderMax(var) ==
  IF var = "v2"
    THEN [R |-> 110, E |-> 160, alpha |-> 1600, mort |-> 120, eps |-> 30,
          gp |-> 40, gm |-> 30, wd |-> 70]
    ELSE [R |-> 110, E |-> 160, alpha |-> 1200, beta |-> 1000, mort |-> 80, eps |-> 30,
          gp |-> 40, gm |-> 20]

\* R = 0, E = 0, alpha = 0, mort = 0, eps = 0; the soil rates and the diffusion
\* strength stay those of the preset
ZeroRates(var) ==
  [k \in DOMAIN Preset(var) |->
     IF k \in {"R", "E", "alpha", "mort", "eps"} THEN 0 ELSE Preset(var)[k]]

ParamSets(var) ==
  IF var = "lin1" THEN {Preset(var), ZeroRates(var)}
  ELSE {Preset(var), SliderMin(var), SliderMax(var), ZeroRates(var)}

\* ---- the grids a run starts from ----------------------------------------------
Seeds == {42, 1}
Densities == {28, 70}
DefaultDensity == 28

\* <<seed, density>> of the seeded grids a run starts from
SeededPairs == {<<42, 28>>, <<1, 70>>}

Uniform(n, a, b, c) ==
  [v |-> [i \in Cells(n) |-> a], w |-> [i \in Cells(n) |-> b], s |-> [i \in Cells(n) |-> c]]

\* The n x n grid of the cluster test: v = 0.9 on the 2x2 block whose corner is
\* (bx, by), 0 elsewhere (the block wraps around the edges)
Block(n, bx, by) ==
  [v |-> [i \in Cells(n) |->
            IF /\ ((i % n) - bx) % n \in {0, 1}
               /\ ((i \div n) - by) % n \in {0, 1}
            THEN (9 * Q) \div 10 ELSE 0],
   w |-> [i \in Cells(n) |-> 0],
   s |-> [i \in Cells(n) |-> 0]]

\* <<v, w>> of the uniform grids; σ is that of v
UniformLevels == {<<0, Q>>, <<Q \div 2, Q \div 2>>, <<Q, Q \div 4>>}

SeededStarts(var) ==
  {[n |-> n, g |-> initState(var, n, sd[1], sd[2]), dens |-> sd[2], ps |-> ParamSets(var)] :
      n \in 1..MaxN, sd \in SeededPairs}

UniformStarts(var) ==
  {[n |-> n, g |-> Uniform(n, l[1], l[2], l[1]), dens |-> DefaultDensity,
    ps |-> {Preset(var), ZeroRates(var)}] : n \in 1..MaxN, l \in UniformLevels}

BlockStarts(var) ==
  {[n |-> 5, g |-> Block(5, b[1], b[2]), dens |-> DefaultDensity, ps |-> {Preset(var)}] :
      b \in {<<1, 1>>, <<4, 4>>}}

\* The radii in use are smaller than the grid side (the grid-size buttons offer
\* 40..120, the radius buttons 1..8).
Radii(n, max) == {r \in 0..max : r < n}

\* ---- the kernel driven by a caller ----------------------------------------------
\* The state after construction: the grid in three arrays, the offset lists
\* built from the radii (const W_OFF = useRef(buildOffsets(params.wr))).
InitWith(sg, pp, r1, r2) ==
  /\ N = sg.n
  /\ heap = [id \in ArrIds |-> IF id = 1 THEN sg.g.v ELSE IF id = 2 THEN sg.g.w
                                ELSE IF id = 3 THEN sg.g.s ELSE <<>>]
  /\ stateRef = [v |-> 1, w |-> 2, s |-> 3]
  /\ density = sg.dens
  /\ p = pp
  /\ wr = r1
  /\ sr = r2
  /\ W_OFF = buildOffsets(r1)
  /\ S_OFF = buildOffsets(r2)
  /\ steps = 0
  /\ call = [fn |-> "none"]
  /\ prev = [fn |-> "none"]
  /\ params = [p |-> pp, wr |-> r1, sr |-> r2]
  /\ effParams = params
  /\ tick = 0
  /\ history = <<>>
  /\ metrics = <<>>
  /\ running = FALSE
  /\ edits = 0
  /\ used = <<>>
  /\ gridN = sg.n
  /\ baseState = [running |-> FALSE, tick |-> 0, metrics |-> <<>>, history |-> <<>>]
  /\ baseQueue = [running |-> <<>>, tick |-> <<>>, metrics |-> <<>>, history |-> <<>>]
  /\ raf = {}
  /\ animRef = 0
  /\ event = "mount"

InitFrom(starts) ==
  \E sg \in starts :
    \E pp \in sg.ps :
      \E r1 \in Radii(sg.n, MaxR) :
        \E r2 \in Radii(sg.n, MaxSR) : InitWith(sg, pp, r1, r2)

Init ==
  /\ variant \in Variants
  /\ InitFrom(SeededStarts(variant) \cup UniformStarts(variant) \cup BlockStarts(variant))

\* stateRef.current = caStep(stateRef.current, pRef.current, N, W_OFF.current, S_OFF.current)
\* The arrays of the state passed in stay in the heap, unreferenced, until the
\* next allocation.
KernelStep ==
  /\ steps < MaxSteps
  /\ LET c == caStep(variant, heap, stateRef, p, N, W_OFF, S_OFF)
     IN  /\ heap' = c.heap
         /\ stateRef' = c.ret
  /\ steps' = steps + 1
  /\ UNCHANGED <<variant, N, density, p, wr, sr, W_OFF, S_OFF, call, prev, uiVars>>

Next == KernelStep

Spec == Init /\ [][Next]_vars

\* The same kernel started from the grids of one seed, of side >= 2: the runs
\* the translation symmetry is checked on.
DefaultSeed == 42

SymStarts(var) ==
  {[n |-> n, g |-> initState(var, n, DefaultSeed, DefaultDensity), dens |-> DefaultDensity,
    ps |-> IF var = "v2" THEN {Preset(var), SliderMax(var)} ELSE {Preset(var)}] :
      n \in 2..MaxN}

InitSym ==
  /\ variant \in Variants
  /\ InitFrom(SymStarts(variant))

SpecSym == InitSym /\ [][Next]_vars

\* ---- the functions called on their own ------------------------------------------
\* Math.random(): some number in [0, 1), here in hundredths
RandomDraws == {0, 50, 99}

\* src/App.jsx init(), one cell: v = Math.random() < INIT_DENSITY ? Math.random() : 0,
\* w = 0.5 + 0.1 * Math.random(), s = 0.5 + 0.1 * Math.random(); d is the four draws
AppInitCell(d) ==
  [v |-> IF d[1] < 15 THEN RoundSum(<< <<d[2] * Q, 100>> >>) ELSE 0,
   w |-> RoundSum(<< <<Q, 2>>, <<d[3] * Q, 1000>> >>),
   s |-> RoundSum(<< <<Q, 2>>, <<d[4] * Q, 1000>> >>)]

\* src/App.jsx init() over the n*n cells, ds[i] the draws of cell i
AppInit(n, ds) ==
  [v |-> [i \in Cells(n) |-> AppInitCell(ds[i]).v],
   w |-> [i \in Cells(n) |-> AppInitCell(ds[i]).w],
   s |-> [i \in Cells(n) |-> AppInitCell(ds[i]).s]]

\* The grid sides an initialiser is called with, valid or not
InitSides == {-1, 0, 1, 2}

\* A parameter set without the field k
Without(pp, k) == [f \in (DOMAIN pp) \ {k} |-> pp[f]]

\* Grids whose vegetated cells (v = 0.15, the threshold) are a subset of the 3x3
\* window at the origin, the other cells just below the threshold (v = 0.10)
MaskWindow == {0, 1, 2}
MaskGrid(n, m) ==
  [v |-> [i \in Cells(n) |-> IF <<i % n, i \div n>> \in m THEN (15 * Q) \div 100
                                                       ELSE (10 * Q) \div 100],
   w |-> [i \in Cells(n) |-> 0],
   s |-> [i \in Cells(n) |-> 0]]

MaskGrids ==
  {[n |-> MaxN, g |-> MaskGrid(MaxN, m)] : m \in SUBSET (MaskWindow \X MaskWindow)}

BlockGrids == {[n |-> 5, g |-> Block(5, bx, by)] : bx \in 0..4, by \in 0..4}

UniformGrids ==
  {[n |-> n, g |-> Uniform(n, a, Q \div 2, a)] : n \in 1..MaxN, a \in 0..Q}

SeededGrids(var) ==
  {[n |-> n, g |-> initState(var, n, seed, DefaultDensity)] : n \in 1..MaxN, seed \in Seeds}

\* The state the calls are made in: a one-cell simulation that no call touches
InitCalls ==
  /\ variant = "v2"
  /\ InitFrom({[n |-> 1, g |-> Uniform(1, 0, 0, 0), dens |-> DefaultDensity,
               ps |-> {Preset("v2")}]})

\* buildOffsets(r), for any integer r: the code has no throw
CallBuildOffsets ==
  /\ steps = 0
  /\ \E r \in (-MaxRad)..MaxRad :
       call' = [fn |-> "buildOffsets", r |-> r, threw |-> FALSE, ret |-> buildOffsets(r)]
  /\ prev' = call
  /\ steps' = steps + 1
  /\ UNCHANGED <<variant, N, heap, stateRef, density, p, wr, sr, W_OFF, S_OFF, uiVars>>

\* initState(N, seed, density), a first time with any arguments and a second time
\* with the arguments of the first
CallInitState ==
  /\ steps < 2
  /\ \E var \in Variants, n \in InitSides, seed \in Seeds, dh \in Densities :
       /\ steps = 1 => /\ call.fn = "initState"
                       /\ call.var = var /\ call.n = n /\ call.seed = seed /\ call.dens = dh
       /\ call' = [fn |-> "initState", var |-> var, n |-> n, seed |-> seed, dens |-> dh,
                   threw |-> FALSE, ret |-> initState(var, n, seed, dh)]
  /\ prev' = call
  /\ steps' = steps + 1
  /\ UNCHANGED <<variant, N, heap, stateRef, density, p, wr, sr, W_OFF, S_OFF, uiVars>>

\* The seeds of the extreme draws: 653637408 is followed by the word 0xffffffff,
\* -1814103163 by a word below the default density and then by 0xffffffff,
\* -144243938 by a word above a density of 0.10 and then by the word 0
ExtremeSeeds == {42, 653637408, -1814103163, -144243938}

\* The densities at the ends of [0, 1], and 0.10 and the default between them
ExtremeDensities == {0, 10, DefaultDensity, 100}

\* initState(N, seed, density) of part_002 and part_001 with these
CallInitExtreme ==
  /\ steps = 0
  /\ \E var \in {"v2", "lin1"}, n \in {1, 2}, seed \in ExtremeSeeds, dh \in ExtremeDensities :
       call' = [fn |-> "initState", var |-> var, n |-> n, seed |-> seed, dens |-> dh,
                threw |-> FALSE, ret |-> initState(var, n, seed, dh)]
  /\ prev' = call
  /\ steps' = steps + 1
  /\ UNCHANGED <<variant, N, heap, stateRef, density, p, wr, sr, W_OFF, S_OFF, uiVars>>

\* part_002 initState(N, seed, density), the floats it stores
CallInitState32 ==
  /\ steps = 0
  /\ \E n \in {1, 2}, seed \in ExtremeSeeds, dh \in ExtremeDensities :
       call' = [fn |-> "initState32", n |-> n, seed |-> seed, dens |-> dh,
                threw |-> FALSE, ret |-> initState32(n, seed, dh)]
  /\ prev' = call
  /\ steps' = steps + 1
  /\ UNCHANGED <<variant, N, heap, stateRef, density, p, wr, sr, W_OFF, S_OFF, uiVars>>

\* src/App.jsx init(), a first and a second time: it takes no argument, and every
\* Math.random() is a draw of its own (the grid side, 160 in the source, is 1 here)
CallAppInit ==
  /\ steps < 2
  /\ steps = 1 => call.fn = "init"
  /\ \E ds \in [Cells(1) -> [1..4 -> RandomDraws]] :
       call' = [fn |-> "init", var |-> "app", n |-> 1, seed |-> 0, dens |-> 15,
                threw |-> FALSE, ret |-> AppInit(1, ds)]
  /\ prev' = call
  /\ steps' = steps + 1
  /\ UNCHANGED <<variant, N, heap, stateRef, density, p, wr, sr, W_OFF, S_OFF, uiVars>>

\* caStep(state, p, N, W_OFF, S_OFF) with a parameter set that lacks a field
CallStepLacking ==
  /\ steps = 0
  /\ \E var \in Variants : \E k \in DOMAIN Preset(var) :
       call' = [fn |-> "caStep", var |-> var, lacks |-> k, threw |-> FALSE,
                ret |-> caStepArrays(var, initState(var, 2, DefaultSeed, DefaultDensity),
                                     Without(Preset(var), k), 2,
                                     buildOffsets(1), buildOffsets(1))]
  /\ prev' = call
  /\ steps' = steps + 1
  /\ UNCHANGED <<variant, N, heap, stateRef, density, p, wr, sr, W_OFF, S_OFF, uiVars>>

\* part_002 computeMetrics(state, N)
CallComputeMetrics ==
  /\ steps = 0
  /\ \E a \in UniformGrids \cup SeededGrids("v2") \cup MaskGrids \cup BlockGrids :
       call' = [fn |-> "computeMetrics", n |-> a.n, g |-> a.g, threw |-> FALSE,
                ret |-> computeMetrics(a.g, a.n)]
  /\ prev' = call
  /\ steps' = steps + 1
  /\ UNCHANGED <<variant, N, heap, stateRef, density, p, wr, sr, W_OFF, S_OFF, uiVars>>

\* The floats 0, 0.05, 0.8 and 1 in a Float32Array
CellFloats ==
  {F32Zero, Fround(<<0, 0, 0, 5>>, <<0, 0, 0, 100>>), Fround(<<0, 0, 0, 80>>, <<0, 0, 0, 100>>),
   [m |-> Pow2(23), k |-> 23]}

\* computeMetrics(state, 2) on the grids of side 2 with such cells
CallComputeMetrics64 ==
  /\ steps = 0
  /\ \E v \in [Cells(2) -> CellFloats] :
       call' = [fn |-> "computeMetrics64", n |-> 2, v |-> v, threw |-> FALSE,
                ret |-> computeMetrics64(v)]
  /\ prev' = call
  /\ steps' = steps + 1
  /\ UNCHANGED <<variant, N, heap, stateRef, density, p, wr, sr, W_OFF, S_OFF, uiVars>>

\* part_003 computeClusterMetrics(state)
CallClusterMetrics ==
  /\ steps = 0
  /\ \E a \in SeededGrids("lin3") \cup MaskGrids \cup BlockGrids :
       call' = [fn |-> "computeClusterMetrics", n |-> a.n, g |-> a.g, threw |-> FALSE,
                ret |-> computeClusterMetrics(a.g.v, a.n)]
  /\ prev' = call
  /\ steps' = steps + 1
  /\ UNCHANGED <<variant, N, heap, stateRef, density, p, wr, sr, W_OFF, S_OFF, uiVars>>

\* The seeds the generator is started from: small ones, the largest a reset
\* draws (Math.random() * 1e6 | 0), negative ones and the ends of the int32 range
RngSeeds == {0, 1, 42, 999999, -1, -42, 2147483647, -2147483647, 653637408}

\* let s = seed | 0: the generator of initState before its first draw
CallRngSeed ==
  /\ steps = 0
  /\ \E seed \in RngSeeds :
       call' = [fn |-> "rng", seed |-> seed, k |-> 0, s |-> ToWord(seed), threw |-> FALSE]
  /\ prev' = call
  /\ steps' = steps + 1
  /\ UNCHANGED <<variant, N, heap, stateRef, density, p, wr, sr, W_OFF, S_OFF, uiVars>>

\* rng(): one more draw of that generator
CallRng ==
  /\ call.fn = "rng" /\ call.k < MaxDraws
  /\ call' = [call EXCEPT !.k = @ + 1, !.s = rngStep(@)]
  /\ prev' = call
  /\ UNCHANGED <<variant, N, heap, stateRef, density, p, wr, sr, W_OFF, S_OFF, steps, uiVars>>

\* <<gp, gm>>: the soil rates of the presets, rates within the slider ranges and
\* the degradation rate 1
SoilRates == {<<12, 6>>, <<20, 20>>, <<40, 30>>, <<12, PQ>>}

\* part_003 theoreticalPredictions: sigStarVeg = gp / (gp + gm), "σ* when v≈1";
\* part_002: σ0 = +(gp / (gp + gm)).toFixed(3)
sigStarVeg(pp) == <<pp.gp, pp.gp + pp.gm>>

\* The soil update at one cell whose vegetation is held at a, from the soil
\* quality s0 ...
CallSoil ==
  /\ steps = 0
  /\ \E a \in {0, Q \div 2, Q} : \E r \in SoilRates : \E s0 \in 0..Q :
       call' = [fn |-> "soil", v |-> a, pp |-> [gp |-> r[1], gm |-> r[2]], k |-> 0,
                s |-> s0, threw |-> FALSE]
  /\ prev' = call
  /\ steps' = steps + 1
  /\ UNCHANGED <<variant, N, heap, stateRef, density, p, wr, sr, W_OFF, S_OFF, uiVars>>

\* ... and step after step
CallSoilAgain ==
  /\ call.fn = "soil" /\ call.k < MaxSoil
  /\ call' = [call EXCEPT !.k = @ + 1, !.s = NewS(call.v, @, call.pp)]
  /\ prev' = call
  /\ UNCHANGED <<variant, N, heap, stateRef, density, p, wr, sr, W_OFF, S_OFF, steps, uiVars>>

\* src/App.jsx: R is the state, the other rates are constants
AppParams(R) ==
  [R |-> R, E |-> 90, alpha |-> 800, beta |-> 400, mort |-> 36, eps |-> 2]

\* Math.random() in init() of src/App.jsx: the four draws of each cell
AppDraws(n) ==
  {[i \in Cells(n) |-> IF i % 2 = k THEN <<0, 50, 0, 99>> ELSE <<50, 0, 99, 0>>] :
     k \in {0, 1}}

\* src/App.jsx step(): the new values go to the scratch arrays nv, nw, ns and are
\* copied back with v.current.set(nv), w.current.set(nw), s.current.set(ns)
appStep(h, st, pp, n, woff, soff) ==
  LET new == caStepArrays("app", Deref(h, st), pp, n, woff, soff)
      sc  == FreshIds(st)
  IN  [h EXCEPT ![sc.v] = new.v, ![sc.w] = new.w, ![sc.s] = new.s,
                ![st.v] = new.v, ![st.w] = new.w, ![st.s] = new.s]

\* ---- a step, cell by cell -------------------------------------------------------
\* The cells a step reads to compute cell i: the cell itself in the three arrays,
\* w (and, in part_001 and src/App.jsx, v) over the water offsets, v over the
\* seed offsets; each as <<array, index>>
ReadsOf(var, from, n, woff, soff, i) ==
  LET x == i % n  y == i \div n
      wn == {Idx(x, y, woff[k][1], woff[k][2], n) : k \in 1..Len(woff)}
      sn == {Idx(x, y, soff[k][1], soff[k][2], n) : k \in 1..Len(soff)}
  IN  {<<from.v, i>>, <<from.w, i>>, <<from.s, i>>}
        \cup {<<from.w, j>> : j \in wn}
        \cup {<<from.v, j>> : j \in sn}
        \cup (IF var \in {"lin1", "app"} THEN {<<from.v, j>> : j \in wn} ELSE {})

\* The body of the loops for one cell i: nv[i], nw[i] and nσ[i] are computed from
\* the arrays `from` as they are in the heap and stored in the arrays `to`
StepCell(var, m, from, to, pp, n, woff, soff, i) ==
  LET old == Deref(m.h, from)
  IN  [h |-> [m.h EXCEPT ![to.v][i] = CellV(var, old.v, old.w, old.s, pp, n, soff, i),
                         ![to.w][i] = CellW(var, old.v, old.w, old.s, pp, n, woff, i),
                         ![to.s][i] = CellS(var, old.v, old.w, old.s, pp, i)],
       written |-> m.written \cup {<<to.v, i>>, <<to.w, i>>, <<to.s, i>>},
       dirty |-> m.dirty \/ (ReadsOf(var, from, n, woff, soff, i) \cap m.written # {})]

RECURSIVE StepCells(_, _, _, _, _, _, _, _, _)
StepCells(var, m, from, to, pp, n, woff, soff, order) ==
  IF order = <<>> THEN m
  ELSE StepCells(var, StepCell(var, m, from, to, pp, n, woff, soff, Head(order)),
                 from, to, pp, n, woff, soff, Tail(order))

\* (mutant) the new values are written into the arrays being read
ScratchOf_Current(st) == st

\* src/App.jsx: const nv = new Float32Array(N * N), nw, ns: the scratch arrays
ScratchOf(st) == FreshIds(st)

\* One step with the cells visited in the given order.  caStep fills three new
\* arrays and returns them; step() of src/App.jsx fills the scratch arrays and
\* copies them over the current ones.
stepInOrder(var, h, st, pp, n, woff, soff, order) ==
  LET app  == var = "app"
      to   == IF app THEN ScratchOf(st) ELSE StepTarget(st)
      zero == [i \in Cells(n) |-> 0]
      h0   == IF app THEN h ELSE [h EXCEPT ![to.v] = zero, ![to.w] = zero, ![to.s] = zero]
      m    == StepCells(var, [h |-> h0, written |-> {}, dirty |-> FALSE],
                        st, to, pp, n, woff, soff, order)
  IN  IF app
        THEN [heap  |-> [m.h EXCEPT ![st.v] = m.h[to.v], ![st.w] = m.h[to.w],
                                    ![st.s] = m.h[to.s]],
              ret   |-> st, dirty |-> m.dirty]
        ELSE [heap |-> m.h, ret |-> to, dirty |-> m.dirty]

\* Orders of the cells: row-major (the loops of the source), its reverse,
\* column-major, and two workers taking the even and the odd cells in turn, the
\* odd ones first
Orders(n) ==
  LET c == n * n
  IN  {[k \in 1..c |-> k - 1],
       [k \in 1..c |-> c - k],
       [k \in 1..c |-> ((k - 1) % n) * n + (k - 1) \div n],
       [k \in 1..c |-> IF k <= c \div 2 THEN 2 * k - 1 ELSE 2 * (k - c \div 2) - 2]}

\* The grids a step is made on, with the parameter set of the variant
OrderGrids(var) ==
  IF var = "app"
    THEN UNION {{[n |-> n, g |-> AppInit(n, ds), pp |-> AppParams(50)] : ds \in AppDraws(n)} :
                  n \in 1..MaxN}
    ELSE {[n |-> sg.n, g |-> sg.g, pp |-> Preset(var)] : sg \in SeededGrids(var)}

\* One step in the order of the source and the same step in another order
CallStepInOrder ==
  /\ steps = 0
  /\ \E var \in Variants \cup {"app"} : \E sg \in OrderGrids(var) :
       \E order \in Orders(sg.n) : \E r1 \in Radii(sg.n, MaxR) : \E r2 \in Radii(sg.n, MaxSR) :
         LET h0  == [id \in ArrIds |-> IF id = 1 THEN sg.g.v ELSE IF id = 2 THEN sg.g.w
                                        ELSE IF id = 3 THEN sg.g.s
                                        ELSE [i \in Cells(sg.n) |-> 0]]
             st  == [v |-> 1, w |-> 2, s |-> 3]
             wo  == buildOffsets(r1)
             so  == buildOffsets(r2)
             seq == IF var = "app"
                      THEN Deref(appStep(h0, st, sg.pp, sg.n, wo, so), st)
                      ELSE LET c == caStep(var, h0, st, sg.pp, sg.n, wo, so)
                           IN  Deref(c.heap, c.ret)
             ord == stepInOrder(var, h0, st, sg.pp, sg.n, wo, so, order)
         IN  call' = [fn |-> "stepInOrder", var |-> var, n |-> sg.n, g |-> sg.g,
                      order |-> order, threw |-> FALSE, seq |-> seq,
                      ret |-> Deref(ord.heap, ord.ret), dirty |-> ord.dirty]
  /\ prev' = call
  /\ steps' = steps + 1
  /\ UNCHANGED <<variant, N, heap, stateRef, density, p, wr, sr, W_OFF, S_OFF, uiVars>>

\* The index expression of caStep, ((y + dy + N) % N) * N + (x + dx + N) % N, for
\* a cell of the grid and an offset of buildOffsets(r)
CallIdx ==
  /\ steps = 0
  /\ \E n \in 1..MaxN : \E r \in 0..MaxRad : \E i \in Cells(n) :
       LET off == buildOffsets(r)
       IN  \E k \in 1..Len(off) :
             call' = [fn |-> "Idx", n |-> n, r |-> r, x |-> i % n, y |-> i \div n,
                      dx |-> off[k][1], dy |-> off[k][2], threw |-> FALSE,
                      ret |-> Idx(i % n, i \div n, off[k][1], off[k][2], n)]
  /\ prev' = call
  /\ steps' = steps + 1
  /\ UNCHANGED <<variant, N, heap, stateRef, density, p, wr, sr, W_OFF, S_OFF, uiVars>>

NextCalls ==
  \/ CallComputeMetrics64
  \/ CallInitExtreme
  \/ CallInitState32
  \/ CallIdx
  \/ CallStepInOrder
  \/ CallSoil
  \/ CallSoilAgain
  \/ CallRngSeed
  \/ CallRng
  \/ CallBuildOffsets
  \/ CallInitState
  \/ CallAppInit
  \/ CallStepLacking
  \/ CallComputeMetrics
  \/ CallClusterMetrics

SpecCalls == InitCalls /\ [][NextCalls]_vars

\* ---- the cluster extraction, one loop iteration at a time ------------------------
\* The grids the extraction is run on: every pattern of vegetated cells on the
\* sides 1 and 2, where a cell is its own neighbour or a neighbour twice, and
\* the patterns of the 3x3 window
FloodGrids ==
  UNION {{[n |-> n, g |-> MaskGrid(n, m)] : m \in SUBSET ((0..(n - 1)) \X (0..(n - 1)))} :
           n \in {1, 2}}
    \cup MaskGrids

\* The elements pushed by one pass over the four directions: the stack after
\* the pass without the part that was there before it
Pushed(before, after) == SubSeq(after, Len(before) + 1, Len(after))

Count(q, i) == Cardinality({k \in 1..Len(q) : q[k] = i})

\* const thr = 0.15, visited = new Uint8Array(N * N), sizes = []; start = 0
FloodBegin ==
  /\ call.fn = "none"
  /\ \E a \in FloodGrids :
       call' = [fn |-> "flood", n |-> a.n, v |-> a.g.v, start |-> 0, visited |-> {},
                q |-> <<>>, sz |-> 0, sizes |-> <<>>, inFill |-> FALSE,
                pushes |-> [i \in Cells(a.n) |-> 0]]
  /\ prev' = call
  /\ UNCHANGED <<variant, N, heap, stateRef, density, p, wr, sr, W_OFF, S_OFF, steps, uiVars>>

\* One iteration of the for loop up to the while loop:
\* if (v[start] < thr || visited[start]) continue;
\* let q = [start], sz = 0; visited[start] = 1;
FloodScan ==
  /\ call.fn = "flood" /\ ~call.inFill /\ call.start < call.n * call.n
  /\ call' = IF BelowThr(call.v[call.start]) \/ call.start \in call.visited
               THEN [call EXCEPT !.start = @ + 1]
               ELSE [call EXCEPT !.q = <<call.start>>, !.sz = 0,
                                 !.visited = @ \cup {call.start},
                                 !.pushes[call.start] = @ + 1,
                                 !.inFill = TRUE]
  /\ prev' = call
  /\ UNCHANGED <<variant, N, heap, stateRef, density, p, wr, sr, W_OFF, S_OFF, steps, uiVars>>

\* One iteration of the while loop: const cur = q.pop(); sz++; and the pass
\* over the four neighbours
FloodPop ==
  /\ call.fn = "flood" /\ call.inFill /\ call.q # <<>>
  /\ LET cur  == call.q[Len(call.q)]
         rest == SubSeq(call.q, 1, Len(call.q) - 1)
         nx   == Visit(call.v, call.n, cur, 1, call.visited, rest)
     IN  call' = [call EXCEPT !.q = nx.q, !.sz = @ + 1, !.visited = nx.visited,
                              !.pushes = [i \in Cells(call.n) |->
                                            call.pushes[i] + Count(Pushed(rest, nx.q), i)]]
  /\ prev' = call
  /\ UNCHANGED <<variant, N, heap, stateRef, density, p, wr, sr, W_OFF, S_OFF, steps, uiVars>>

\* The while loop is left: sizes.push(sz); start++
FloodEnd ==
  /\ call.fn = "flood" /\ call.inFill /\ call.q = <<>>
  /\ call' = [call EXCEPT !.sizes = Append(@, call.sz), !.start = @ + 1, !.inFill = FALSE]
  /\ prev' = call
  /\ UNCHANGED <<variant, N, heap, stateRef, density, p, wr, sr, W_OFF, S_OFF, steps, uiVars>>

NextFlood ==
  \/ FloodBegin
  \/ FloodScan
  \/ FloodPop
  \/ FloodEnd

\* The loops run on once entered: nothing else runs in between
SpecFlood == InitCalls /\ [][NextFlood]_vars /\ WF_vars(NextFlood)

\* ---- the App component: stepping, metrics and reset ----------------------------
\* if (nt % 5 === 0)
MetricsEvery == 5

\* h.slice(-300) in part_002, h.slice(-200) in part_003
HistoryKept(var) == IF var = "lin3" THEN 200 ELSE 300

\* part_002 and part_003 keep a tick counter and a history; part_001 has neither
HasTick(var) == var \in {"v2", "lin3"}

\* h.slice(-k): the last k elements of h, all of h when it has no more than k
SliceLast(h, k) == IF Len(h) <= k THEN h ELSE SubSeq(h, Len(h) - k + 1, Len(h))

RECURSIVE Pow10(_)
Pow10(d) == IF d = 0 THEN 1 ELSE 10 * Pow10(d - 1)

\* Long division of i + r/den by d more decimal digits: <<digits, remainder>>
RECURSIVE Digits(_, _, _, _)
Digits(i, r, den, d) ==
  IF d = 0 THEN <<i, r>>
  ELSE Digits(i * 10 + (r * 10) \div den, (r * 10) % den, den, d - 1)

\* +x.toFixed(d): x to the nearest multiple of 10^-d, the larger in magnitude of
\* two equally near; NaN stays NaN
ToFixed(fr, d) ==
  IF fr[2] = 0 THEN <<0, 0>>
  ELSE LET a == IF fr[1] < 0 THEN -fr[1] ELSE fr[1]
           q == Digits(a \div fr[2], a % fr[2], fr[2], d)
           n == IF 2 * q[2] >= fr[2] THEN q[1] + 1 ELSE q[1]
       IN  <<IF fr[1] < 0 THEN -n ELSE n, Pow10(d)>>

\* part_003 computeBasicMetrics(state)
computeBasicMetrics(st, n) ==
  LET n2  == n * n
      bad == \E i \in Cells(n) : st.v[i] = NaN
  IN  [vmean |-> IF bad THEN <<0, 0>> ELSE <<ArrSum(st.v, n), Q * n2>>,
       wmean |-> <<ArrSum(st.w, n), Q * n2>>,
       smean |-> <<ArrSum(st.s, n), Q * n2>>,
       vvar  |-> IF bad THEN <<0, 0>> ELSE <<SqDevSum(st.v, n), Q * Q * n2 * n2 * n2>>]

Measure(var, st, n) ==
  IF var = "lin3" THEN computeBasicMetrics(st, n) ELSE computeMetrics(st, n)

\* The record doStep appends to the history
HistoryRecord(var, nt, m) ==
  IF var = "lin3"
    THEN [t |-> nt, vmean |-> ToFixed(m.vmean, 3), wmean |-> ToFixed(m.wmean, 3),
          smean |-> ToFixed(m.smean, 3), vvar |-> ToFixed(m.vvar, 4)]
    ELSE [t |-> nt, vm |-> ToFixed(m.vm, 3), wm |-> ToFixed(m.wm, 3),
          sm |-> ToFixed(m.sm, 3), vvar |-> ToFixed(m.vvar, 5),
          moran |-> ToFixed(m.moran, 3)]

IsMetricsTick_EveryTick(nt) == TRUE

IsMetricsTick(nt) == nt % MetricsEvery = 0

\* What is left alone by a step, a reset and a click on Run
CallerFrame == <<variant, N, density, p, wr, sr, W_OFF, S_OFF, call, prev, params,
                 effParams, edits, loopVars>>

\* doStep (part_002, part_003), step (part_001): one step of the kernel on the
\* state the App holds, then the updater of setTick.  The updater is run once,
\* on the state just computed: every frame is rendered before the next.
doStep ==
  LET c  == caStep(variant, heap, stateRef, p, N, W_OFF, S_OFF)
      nt == tick + 1
      m  == Measure(variant, Deref(c.heap, c.ret), N)
  IN  /\ heap' = c.heap
      /\ stateRef' = c.ret
      /\ steps' = steps + 1
      /\ used' = <<[p |-> p, wr |-> wr, sr |-> sr, W_OFF |-> W_OFF, S_OFF |-> S_OFF]>>
      /\ IF ~HasTick(variant) THEN UNCHANGED <<tick, metrics, history>>
         ELSE /\ tick' = nt
              /\ IF IsMetricsTick(nt)
                   THEN /\ metrics' = <<m>>
                        /\ history' = Append(SliceLast(history, HistoryKept(variant)),
                                             HistoryRecord(variant, nt, m))
                   ELSE UNCHANGED <<metrics, history>>

\* A frame of the loop started by Run: loop = () => { doStep(); requestAnimationFrame(loop) }
Frame(limit) ==
  /\ running /\ steps < limit
  /\ doStep
  /\ UNCHANGED <<CallerFrame, running>>

\* The Step button.  A click is handled after the effects of the last render
\* have run.
StepButton(limit) ==
  /\ effParams = params /\ steps < limit
  /\ doStep
  /\ UNCHANGED <<CallerFrame, running>>

\* The Run / Pause button: setRunning(r => !r)
ToggleRun ==
  /\ running' = ~running
  /\ UNCHANGED <<CallerFrame, heap, stateRef, steps, tick, metrics, history, used>>

\* initState(N, seed, density) for the seeds a reset draws, on the grids of the
\* App (evaluated once)
ResetGrids ==
  [a \in Variants \X {1, 2} \X Seeds \X {DefaultDensity} |->
     initState(a[1], a[2], a[3], a[4])]

\* stateRef.current = initState(N, Math.random() * 1e6 | 0, density), in arrays
\* newly made
initInto(h, st, var, n, seed, dh) ==
  Only({[heap |-> [h EXCEPT ![to.v] = g.v, ![to.w] = g.w, ![to.s] = g.s], ret |-> to] :
          g \in {ResetGrids[<<var, n, seed, dh>>]}, to \in {FreshIds(st)}})

\* doReset (part_002), onReset (part_003), reset (part_001, which leaves the
\* loop running)
doReset ==
  \E seed \in Seeds :
    LET c == initInto(heap, stateRef, variant, N, seed, density)
    IN  /\ heap' = c.heap
        /\ stateRef' = c.ret
        /\ steps' = 0
        /\ running' = IF HasTick(variant) THEN FALSE ELSE running
        /\ tick' = 0
        /\ history' = <<>>
        /\ metrics' = <<>>

\* The Reset button
Reset ==
  /\ doReset
  /\ UNCHANGED <<CallerFrame, used>>

\* A long run under one Parameter Set, on the grid of one cell
RunStarts(var) ==
  {[n |-> 1, g |-> initState(var, 1, seed, DefaultDensity), dens |-> DefaultDensity,
    ps |-> {Preset(var)}] : seed \in Seeds}

InitRun ==
  /\ variant = "v2"
  /\ InitFrom(RunStarts(variant))

NextRun ==
  \/ Frame(MaxRun)
  \/ StepButton(MaxRun)
  \/ ToggleRun
  \/ Reset

SpecRun == InitRun /\ [][NextRun]_vars

\* Short runs of part_002 and part_003 on the grid of side 2
ShortStarts(var) ==
  {[n |-> 2, g |-> initState(var, 2, seed, DefaultDensity), dens |-> DefaultDensity,
    ps |-> {Preset(var)}] : seed \in Seeds}

InitShort ==
  /\ variant \in {"v2", "lin3"}
  /\ \E sg \in ShortStarts(variant) : InitWith(sg, Preset(variant), 1, 1)

NextShort ==
  \/ Frame(MaxShort)
  \/ StepButton(MaxShort)
  \/ ToggleRun
  \/ Reset

SpecShort == InitShort /\ [][NextShort]_vars

\* ---- the App component: the controls of the Parameter Set ------------------------
STEPS_PER_FRAME == 3

\* The grid of the App, of side 2 where the source has 40..120 (160 in App.jsx),
\* and its radii, 0 and 1, smaller than the side, where the source has 1..8
AppSides == {2}

\* PRESETS, by name, with the radii at the scale of the grid: the preset the App
\* starts with, and presets with another rainfall, another diffusion and other radii
PresetNames(var) ==
  IF var \in {"v2", "lin1"} THEN {"Spots", "Tiger Stripes", "Fairy Circles"} ELSE {"Spots"}

PRESETS(var, name) ==
  IF var = "v2"
    THEN IF name = "Spots" THEN [p |-> Preset(var), wr |-> 1, sr |-> 1]
         ELSE IF name = "Tiger Stripes"
           THEN [p |-> [Preset(var) EXCEPT !.R = 52], wr |-> 1, sr |-> 1]
           ELSE [p |-> [Preset(var) EXCEPT !.R = 56, !.wd = 12], wr |-> 0, sr |-> 1]
  ELSE IF var = "lin1"
    THEN IF name = "Spots" THEN [p |-> Preset(var), wr |-> 1, sr |-> 1]
         ELSE IF name = "Tiger Stripes"
           THEN [p |-> [R |-> 60, E |-> 80, alpha |-> 900, beta |-> 300, mort |-> 30,
                        eps |-> 2, gp |-> 10, gm |-> 6], wr |-> 0, sr |-> 1]
           ELSE [p |-> [Preset(var) EXCEPT !.R = 54], wr |-> 1, sr |-> 1]
  ELSE IF var = "app" THEN [p |-> AppParams(50), wr |-> 1, sr |-> 1]
  ELSE [p |-> Preset(var), wr |-> 1, sr |-> 1]

\* The grid the App shows after mounting: doReset / reset / initState() / init()
AppStarts(var) ==
  IF var = "app"
    THEN UNION {{[n |-> n, g |-> AppInit(n, ds), dens |-> 15] : ds \in AppDraws(n)} :
                   n \in AppSides}
    ELSE {[n |-> n, g |-> initState(var, n, DefaultSeed, DefaultDensity),
           dens |-> DefaultDensity] : n \in AppSides}

InitApp ==
  /\ variant \in {"v2", "lin1", "app"}
  /\ \E sg \in AppStarts(variant) :
       LET d == PRESETS(variant, "Spots") IN InitWith(sg, d.p, d.wr, d.sr)

RECURSIVE appSteps(_, _, _, _, _, _, _)
appSteps(h, st, pp, n, woff, soff, k) ==
  IF k = 0 THEN h ELSE appSteps(appStep(h, st, pp, n, woff, soff), st, pp, n, woff, soff, k - 1)

\* src/App.jsx computeMetrics(): setMetrics({ mean, var })
appMetrics(st, n) ==
  [mean |-> <<ArrSum(st.v, n), Q * n * n>>,
   var  |-> <<SqDevSum(st.v, n), Q * Q * n * n * n * n * n * n>>]

\* src/App.jsx loop(): STEPS_PER_FRAME steps, then the metrics
AppFrame(limit) ==
  /\ variant = "app" /\ steps < limit
  /\ heap' = appSteps(heap, stateRef, p, N, W_OFF, S_OFF, STEPS_PER_FRAME)
  /\ metrics' = <<appMetrics(Deref(heap', stateRef), N)>>
  /\ steps' = steps + STEPS_PER_FRAME
  /\ used' = <<[p |-> p, wr |-> wr, sr |-> sr, W_OFF |-> W_OFF, S_OFF |-> S_OFF]>>
  /\ UNCHANGED <<CallerFrame, stateRef, running, tick, history>>

\* src/App.jsx init(): every cell of v.current, w.current and s.current drawn anew
appInit(h, st, n) ==
  {[h EXCEPT ![st.v] = AppInit(n, ds).v, ![st.w] = AppInit(n, ds).w,
             ![st.s] = AppInit(n, ds).s] : ds \in AppDraws(n)}

\* A slider: setParams(p => ({ ...p, [k]: +e.target.value })), setR(...) in
\* src/App.jsx; the rainfall slider, moved to an end of its range
SliderEnds(var) ==
  IF var = "app" THEN {0, 100} ELSE {SliderMin(var).R, SliderMax(var).R}

MoveSlider ==
  /\ variant \in {"v2", "app"}
  /\ edits < MaxEdits /\ effParams = params
  /\ \E val \in SliderEnds(variant) :
       /\ val # params.p.R
       /\ params' = [params EXCEPT !.p.R = val]
  /\ edits' = edits + 1
  /\ UNCHANGED <<variant, N, heap, stateRef, density, p, wr, sr, W_OFF, S_OFF, steps,
                 call, prev, effParams, tick, history, metrics, running, used, loopVars>>

\* A radius button of part_002: setParams(p => ({ ...p, wr: r })), ({ ...p, sr: r })
PickRadius ==
  /\ variant = "v2"
  /\ edits < MaxEdits /\ effParams = params
  /\ \/ \E r \in Radii(N, MaxR) : r # params.wr /\ params' = [params EXCEPT !.wr = r]
     \/ \E r \in Radii(N, MaxSR) : r # params.sr /\ params' = [params EXCEPT !.sr = r]
  /\ edits' = edits + 1
  /\ UNCHANGED <<variant, N, heap, stateRef, density, p, wr, sr, W_OFF, S_OFF, steps,
                 call, prev, effParams, tick, history, metrics, running, used, loopVars>>

\* A preset button.  part_002 applyPreset(name): setParams(p); pRef.current = p;
\* W_OFF.current = buildOffsets(p.wr); S_OFF.current = buildOffsets(p.sr).
\* part_001: setParams(PRESETS[name]); reset()
ClickPreset ==
  /\ variant \in {"v2", "lin1"}
  /\ edits < MaxEdits /\ effParams = params
  /\ edits' = edits + 1
  /\ \E name \in PresetNames(variant) :
       LET pr == PRESETS(variant, name)
       IN  /\ params' = pr
           /\ IF variant = "v2"
                THEN /\ p' = pr.p /\ wr' = pr.wr /\ sr' = pr.sr
                     /\ W_OFF' = buildOffsets(pr.wr)
                     /\ S_OFF' = buildOffsets(pr.sr)
                     /\ UNCHANGED <<heap, stateRef, steps, tick, history, metrics, running>>
                ELSE /\ doReset
                     /\ UNCHANGED <<p, wr, sr, W_OFF, S_OFF>>
  /\ UNCHANGED <<variant, N, density, call, prev, effParams, used, loopVars>>

\* useEffect(f, deps): f runs after a render whose deps differ from those of the
\* render before
EffectRuns_Never(old, new) == FALSE

EffectRuns(old, new) == old # new

\* The effects of the render that followed a change of params.
\* part_002: pRef.current = params; W_OFF.current = buildOffsets(params.wr) on
\* [params.wr]; S_OFF.current = buildOffsets(params.sr) on [params.sr].
\* part_001: both lists on [params.wr, params.sr]; the loop is started again with
\* the step that closes over the new params.  part_003: paramsRef.current = params.
\* src/App.jsx, on [R]: init(), and the loop is started again.
FlushEffects ==
  /\ effParams # params
  /\ effParams' = params
  /\ p' = params.p
  /\ IF variant \in {"v2", "lin1"}
       THEN /\ wr' = params.wr
            /\ sr' = params.sr
            /\ LET both == variant = "lin1"
                   w1   == EffectRuns(effParams.wr, params.wr)
                   s1   == EffectRuns(effParams.sr, params.sr)
               IN  /\ W_OFF' = IF w1 \/ (both /\ s1) THEN buildOffsets(params.wr) ELSE W_OFF
                   /\ S_OFF' = IF s1 \/ (both /\ w1) THEN buildOffsets(params.sr) ELSE S_OFF
       ELSE UNCHANGED <<wr, sr, W_OFF, S_OFF>>
  /\ IF variant = "app" /\ EffectRuns(effParams.p.R, params.p.R)
       THEN heap' \in appInit(heap, stateRef, N) /\ steps' = 0
       ELSE UNCHANGED <<heap, steps>>
  /\ UNCHANGED <<variant, N, stateRef, density, call, prev, params, tick, history,
                 metrics, running, edits, used, loopVars>>

NextApp ==
  \/ variant # "app" /\ Frame(MaxTicks)
  \/ variant # "app" /\ StepButton(MaxTicks)
  \/ variant # "app" /\ ToggleRun
  \/ AppFrame(MaxTicks)
  \/ MoveSlider
  \/ PickRadius
  \/ ClickPreset
  \/ FlushEffects

SpecApp == InitApp /\ [][NextApp]_vars

\* ---- the App component under React's scheduling -----------------------------------
\* The component in a React 18 root.  A state setter called in a click handler
\* makes an update of the lane "sync", rendered before the handler's task ends
\* and followed at once by the effects of that render; a setter called in an
\* animation-frame callback or in an effect makes an update of the lane
\* "default", rendered in a later task (Render), so that a click or a frame can
\* fall between the call and the render.  An updater function (t => ...) is run
\* by the render that applies it, not by the setter.
MaxLoop == 6
MaxPending == 1
MaxClicks == 3

\* The grid-size buttons of part_002 ([40, 60, 80, 100, 120]) at the scale of the
\* model; part_003 has the constant N, part_001 no control of its gridN
GridSizes(var) == IF var = "v2" THEN {1, 2} ELSE {1}

HasRunning(var) == var # "app"

\* A render in the lanes `lane` applies an update of that lane, and one it has
\* applied before and kept behind an update it left out ("none")
Included(u, lane) == u.lane = "none" \/ u.lane = lane

\* state.v, state.w, state.s read as arrays of n * n cells: a read past the end
\* of a Float32Array is undefined, NaN in the arithmetic
ViewAs(st, n) ==
  LET cut(a) == [i \in Cells(n) |-> IF i \in DOMAIN a THEN a[i] ELSE NaN]
  IN  [v |-> cut(st.v), w |-> cut(st.w), s |-> cut(st.s)]

MeasureAs(var, st, n) ==
  LET m == Measure(var, ViewAs(st, n), n)
  IN  IF var = "v2" /\ \E i \in Cells(n) : i \notin DOMAIN st.w
        THEN [m EXCEPT !.wm = <<0, 0>>, !.sm = <<0, 0>>]
        ELSE m

\* The lengths of the three arrays of a state
Lengths(st) == {Cardinality(DOMAIN st.v), Cardinality(DOMAIN st.w), Cardinality(DOMAIN st.s)}

\* One update applied to the value s of its hook; cur is stateRef.current as the
\* render finds it.  The updater of doStep measures stateRef.current with the N
\* of its step and calls setMetrics and setHistory when nt % 5 === 0: updates
\* made while rendering, returned in phase.
ApplyUpdate(var, u, s, cur) ==
  IF u.op = "set" THEN [val |-> u.to, phase |-> <<>>]
  ELSE IF u.op = "toggle" THEN [val |-> ~s, phase |-> <<>>]
  ELSE IF ~IsMetricsTick(s + 1) THEN [val |-> s + 1, phase |-> <<>>]
  ELSE Only({[val |-> s + 1,
              phase |-> <<[m |-> m, rec |-> HistoryRecord(var, s + 1, m), N |-> u.N,
                           len |-> Lengths(cur)]>>] : m \in {MeasureAs(var, cur, u.N)}})

\* updateReducer, one update of the queue of a hook: acc is the state so far
\* (val), the new base and the updates kept.  An update the lanes leave out
\* stays, and so does every update after it (to be applied again, in order, by
\* the render that takes the one left out); the state before the first one left
\* out is the new base.
Take(var, u, lane, cur, acc) ==
  IF Included(u, lane)
    THEN Only({[val |-> a.val, base |-> acc.base,
                queue |-> IF acc.queue = <<>> THEN <<>>
                          ELSE Append(acc.queue, [u EXCEPT !.lane = "none"]),
                phase |-> acc.phase \o a.phase] : a \in {ApplyUpdate(var, u, acc.val, cur)}})
    ELSE [val |-> acc.val, base |-> IF acc.queue = <<>> THEN acc.val ELSE acc.base,
          queue |-> Append(acc.queue, u), phase |-> acc.phase]

RECURSIVE Reduce(_, _, _, _, _, _)
Reduce(var, q, lane, cur, i, acc) ==
  IF i > Len(q)
    THEN [val |-> acc.val, base |-> IF acc.queue = <<>> THEN acc.val ELSE acc.base,
          queue |-> acc.queue, phase |-> acc.phase]
    ELSE Only({Reduce(var, q, lane, cur, i + 1, nx) : nx \in {Take(var, q[i], lane, cur, acc)}})

\* The queue q of a hook, from its base state
ReduceHook(var, base, q, lane, cur) ==
  Only({Reduce(var, qq, lane, cur, 1,
               [val |-> base, base |-> base, queue |-> <<>>, phase |-> <<>>]) : qq \in {q}})

\* The updates made while rendering, applied to the state of their hook by the
\* pass that follows (rerenderReducer); they become the base when no update
\* of the hook is left
RECURSIVE PushAll(_, _, _)
PushAll(var, h, ph) ==
  IF ph = <<>> THEN h
  ELSE PushAll(var, Append(SliceLast(h, HistoryKept(var)), Head(ph).rec), Tail(ph))

\* The updates of us made to the hook h
RECURSIVE OfHook(_, _)
OfHook(us, h) ==
  IF us = <<>> THEN <<>>
  ELSE (IF Head(us).hook = h THEN <<Head(us)>> ELSE <<>>) \o OfHook(Tail(us), h)

\* What a render leaves in the hooks, from the queues reduced: r of running, t
\* of tick, m of metrics, h of history
Rendered(var, r, t, m, h) ==
  LET mv == IF t.phase = <<>> THEN m.val ELSE <<t.phase[Len(t.phase)].m>>
      hv == PushAll(var, h.val, t.phase)
  IN  [val   |-> [running |-> r.val, tick |-> t.val, metrics |-> mv, history |-> hv],
       base  |-> [running |-> r.base, tick |-> t.base,
                  metrics |-> IF m.queue = <<>> THEN mv ELSE m.base,
                  history |-> IF h.queue = <<>> THEN hv ELSE h.base],
       queue |-> [running |-> r.queue, tick |-> t.queue, metrics |-> m.queue,
                  history |-> h.queue],
       phase |-> t.phase]

\* A render of App in the lanes `lane`: the hooks in the order of their
\* declaration (running, tick, then metrics and history), each from its base
\* state over its queue with the updates `more` added.  st is what the hooks
\* hold, [base, queue] by hook.
RenderApp(var, st, more, lane, cur) ==
  Only({Rendered(var, r, t, m, h) :
          r \in {ReduceHook(var, st.base.running,
                            st.queue.running \o OfHook(more, "running"), lane, cur)},
          t \in {ReduceHook(var, st.base.tick,
                            st.queue.tick \o OfHook(more, "tick"), lane, cur)},
          m \in {ReduceHook(var, st.base.metrics,
                            st.queue.metrics \o OfHook(more, "metrics"), lane, cur)},
          h \in {ReduceHook(var, st.base.history,
                            st.queue.history \o OfHook(more, "history"), lane, cur)}})

Hooks == [base |-> baseState, queue |-> baseQueue]

Update(h, op, to, n, lane) == [hook |-> h, op |-> op, to |-> to, N |-> n, lane |-> lane]

\* setTick(t => { ... }) of doStep, with the N the step read from NRef.current
TickUpdater(n, lane) == Update("tick", "inc", 0, n, lane)

\* setRunning(false); setTick(0); setHistory([]); setMetrics(null)
ResetUpdates(var, lane) ==
  IF HasTick(var)
    THEN <<Update("running", "set", FALSE, 0, lane), Update("tick", "set", 0, 0, lane),
           Update("history", "set", <<>>, 0, lane), Update("metrics", "set", <<>>, 0, lane)>>
    ELSE <<>>

\* A handler of a control: edits counts the clicks
Click ==
  /\ edits < MaxClicks
  /\ edits' = edits + 1

\* The arrays no state object refers to are collected
Collect(h, st) == [id \in ArrIds |-> IF id \in Live(st) THEN h[id] ELSE <<>>]

\* What a render commits
Commit(r) ==
  /\ running' = r.val.running
  /\ tick' = r.val.tick
  /\ metrics' = r.val.metrics
  /\ history' = r.val.history
  /\ baseState' = r.base
  /\ baseQueue' = r.queue

\* requestAnimationFrame: a handle no callback and no reference holds
NewHandle(pending, ref) == CHOOSE h \in 1..8 : h \notin pending \cup {ref}

\* cancelAnimationFrame(handle)
Cancel(pending, handle) == pending \ {handle}

\* (mutant) the clean-up of the loop effect cancels nothing
CleanUp_Nothing(pending, handle) == pending

\* return () => cancelAnimationFrame(animRef.current)
CleanUp(pending, handle) == Cancel(pending, handle)

\* The loop effect, run after a render that changed running (part_001: or
\* params): the clean-up of its last run, then
\*   if (running) { animRef.current = requestAnimationFrame(loop) }
\*   else cancelAnimationFrame(animRef.current)     (part_002 and part_003 only)
\* pending is what the handlers before it have left of raf.
LoopEffect(changed, now, pending) ==
  IF ~changed THEN /\ raf' = pending
                   /\ UNCHANGED animRef
  ELSE LET left == CleanUp(pending, animRef)
       IN  IF now THEN /\ raf' = left \cup {NewHandle(left, animRef)}
                       /\ animRef' = NewHandle(left, animRef)
           ELSE /\ raf' = IF variant = "lin1" THEN left ELSE Cancel(left, animRef)
                /\ UNCHANGED animRef

\* The last call of caStep or computeMetrics: the N passed and the lengths of
\* the arrays of the state passed
Invocation(fn, n, st) == [fn |-> fn, n |-> n, len |-> Lengths(st)]

Measured(r) ==
  IF r.phase = <<>> THEN call
  ELSE [fn |-> "doStep:computeMetrics", n |-> r.phase[Len(r.phase)].N,
        len |-> r.phase[Len(r.phase)].len]

\* The part of doStep / step that runs in the handler: one step of the kernel on
\* stateRef.current
stepNow ==
  LET c == caStep(variant, heap, stateRef, p, N, W_OFF, S_OFF)
  IN  /\ heap' = Collect(c.heap, c.ret)
      /\ stateRef' = c.ret
      /\ steps' = steps + 1
      /\ used' = <<[p |-> p, wr |-> wr, sr |-> sr, W_OFF |-> W_OFF, S_OFF |-> S_OFF]>>

LoopFrameOf == <<variant, density, p, wr, sr, W_OFF, S_OFF, prev, params, effParams>>

\* The browser calls a pending animation-frame callback:
\*   loop = () => { doStep(); animRef.current = requestAnimationFrame(loop) }
\* The update of setTick waits for a render.
LoopFrame ==
  /\ variant # "app" /\ steps < MaxLoop /\ Len(baseQueue.tick) < MaxPending
  /\ \E h \in raf :
       /\ raf' = (raf \ {h}) \cup {NewHandle(raf \ {h}, animRef)}
       /\ animRef' = NewHandle(raf \ {h}, animRef)
  /\ stepNow
  /\ call' = Invocation("doStep:caStep", N, Deref(heap, stateRef))
  /\ baseQueue' = IF HasTick(variant)
                    THEN [baseQueue EXCEPT !.tick = Append(@, TickUpdater(N, "default"))]
                    ELSE baseQueue
  /\ event' = "frame"
  /\ UNCHANGED <<LoopFrameOf, N, gridN, edits, running, tick, metrics, history, baseState>>

\* The render React had scheduled for the updates of the lane "default", and
\* the effects that follow it
Render ==
  /\ \E h \in DOMAIN baseQueue : baseQueue[h] # <<>>
  /\ \E r \in {RenderApp(variant, Hooks, <<>>, "default", Deref(heap, stateRef))} :
         /\ Commit(r)
         /\ call' = Measured(r)
         /\ LoopEffect(r.val.running # running, r.val.running, raf)
  /\ event' = "render"
  /\ UNCHANGED <<LoopFrameOf, N, gridN, edits, heap, stateRef, steps, used>>

\* The Run / Pause button: setRunning(r => !r), the render and the loop effect
ClickRun ==
  /\ HasRunning(variant) /\ Click
  /\ \E r \in {RenderApp(variant, Hooks, <<Update("running", "toggle", 0, 0, "sync")>>,
                          "sync", Deref(heap, stateRef))} :
         /\ Commit(r)
         /\ call' = Measured(r)
         /\ LoopEffect(r.val.running # running, r.val.running, raf)
  /\ event' = IF running THEN "pause" ELSE "run"
  /\ UNCHANGED <<LoopFrameOf, N, gridN, heap, stateRef, steps, used>>

\* The Step button: doStep / step, and the render (part_003: disabled={running})
ClickStep ==
  /\ variant # "app" /\ steps < MaxLoop /\ Click
  /\ variant = "lin3" => ~running
  /\ stepNow
  /\ \E r \in {RenderApp(variant, Hooks,
                          IF HasTick(variant) THEN <<TickUpdater(N, "sync")>> ELSE <<>>,
                          "sync", Deref(heap', stateRef'))} :
         /\ Commit(r)
         /\ call' = IF r.phase = <<>> THEN Invocation("doStep:caStep", N, Deref(heap, stateRef))
                    ELSE Measured(r)
         /\ LoopEffect(r.val.running # running, r.val.running, raf)
  /\ event' = "step"
  /\ UNCHANGED <<LoopFrameOf, N, gridN>>

\* The Reset button.  part_002 doReset(gridN, initDensity): setRunning(false);
\* cancelAnimationFrame(animRef.current); a new state; setTick(0); setHistory([]);
\* setMetrics(null).  part_003 onReset: the same without the cancel.  part_001
\* reset(): a new state.  Then the render and the loop effect.
ClickReset ==
  /\ variant # "app" /\ Click
  /\ \E seed \in Seeds :
       \E c \in {initInto(heap, stateRef, variant, gridN, seed, density)} :
           /\ heap' = Collect(c.heap, c.ret)
           /\ stateRef' = c.ret
  /\ steps' = 0
  /\ \E r \in {RenderApp(variant, Hooks, ResetUpdates(variant, "sync"), "sync",
                          Deref(heap', stateRef'))} :
         /\ Commit(r)
         /\ call' = Measured(r)
         /\ LoopEffect(r.val.running # running, r.val.running,
                       IF variant = "v2" THEN Cancel(raf, animRef) ELSE raf)
  /\ event' = "reset"
  /\ UNCHANGED <<LoopFrameOf, N, gridN, used>>

\* A grid-size button of part_002: setGridN(n) and the render; then the effects
\* on [gridN]: NRef.current = gridN, and doReset(gridN, initDensity), whose
\* updates wait for a render as those of a frame do
ClickGridSize ==
  /\ variant = "v2" /\ Click
  /\ \E n \in GridSizes(variant) \ {gridN} :
       /\ gridN' = n
       /\ N' = n
       /\ \E seed \in Seeds :
            \E c \in {initInto(heap, stateRef, variant, n, seed, density)} :
                /\ heap' = Collect(c.heap, c.ret)
                /\ stateRef' = c.ret
  /\ steps' = 0
  /\ \E r \in {RenderApp(variant, Hooks, <<>>, "sync", Deref(heap, stateRef))},
        d \in {ResetUpdates(variant, "default")} :
         /\ running' = r.val.running
         /\ tick' = r.val.tick
         /\ metrics' = r.val.metrics
         /\ history' = r.val.history
         /\ baseState' = r.base
         /\ baseQueue' = [h \in DOMAIN r.queue |->
                            r.queue[h] \o OfHook(d, h)]
         /\ call' = Measured(r)
         /\ LoopEffect(r.val.running # running, r.val.running, Cancel(raf, animRef))
  /\ event' = "size"
  /\ UNCHANGED <<LoopFrameOf, used>>

\* The effect of src/App.jsx on [R], run after mounting and after a render that
\* changed R: the clean-up of its last run (cancelAnimationFrame(frame)), then
\* init() and loop(): STEPS_PER_FRAME steps, the metrics, and the next frame
\* requested.  setMetrics is given a value computed in the frame; the model
\* commits it with the frame.
AppEffect(h0, pp) ==
  \E h1 \in appInit(h0, stateRef, N) :
    /\ heap' = appSteps(h1, stateRef, pp, N, W_OFF, S_OFF, STEPS_PER_FRAME)
    /\ metrics' = <<appMetrics(Deref(heap', stateRef), N)>>
    /\ steps' = STEPS_PER_FRAME
    /\ raf' = CleanUp(raf, animRef) \cup {NewHandle(CleanUp(raf, animRef), animRef)}
    /\ animRef' = NewHandle(CleanUp(raf, animRef), animRef)

MountApp ==
  /\ variant = "app" /\ event = "mount"
  /\ AppEffect(heap, p)
  /\ event' = "mounted"
  /\ UNCHANGED <<LoopFrameOf, N, gridN, edits, stateRef, used, call, running, tick,
                 history, baseState, baseQueue>>

\* A pending callback of src/App.jsx is called: loop()
AppLoopFrame ==
  /\ variant = "app" /\ steps < MaxLoop
  /\ \E h \in raf :
       /\ raf' = (raf \ {h}) \cup {NewHandle(raf \ {h}, animRef)}
       /\ animRef' = NewHandle(raf \ {h}, animRef)
  /\ heap' = appSteps(heap, stateRef, p, N, W_OFF, S_OFF, STEPS_PER_FRAME)
  /\ metrics' = <<appMetrics(Deref(heap', stateRef), N)>>
  /\ steps' = steps + STEPS_PER_FRAME
  /\ event' = "frame"
  /\ UNCHANGED <<LoopFrameOf, N, gridN, edits, stateRef, used, call, running, tick,
                 history, baseState, baseQueue>>

\* The rainfall slider of src/App.jsx: setR(+e.target.value), the render and
\* the effect on [R]
AppSlider ==
  /\ variant = "app" /\ event # "mount" /\ Click
  /\ \E val \in SliderEnds(variant) :
       /\ val # params.p.R
       /\ params' = [params EXCEPT !.p.R = val]
  /\ p' = params'.p
  /\ effParams' = params'
  /\ AppEffect(heap, params'.p)
  /\ event' = "params"
  /\ UNCHANGED <<variant, density, wr, sr, W_OFF, S_OFF, prev, N, gridN, stateRef, used,
                 call, running, tick, history, baseState, baseQueue>>

\* A preset button of part_001: setParams(PRESETS[name]); reset(); the render;
\* then the loop effect, on [running, params], started again with the step
\* that closes over the new params
LoopPresets(var) == {Preset(var), [Preset(var) EXCEPT !.R = 54]}

ClickPresetLoop ==
  /\ variant = "lin1" /\ Click
  /\ \E pp \in LoopPresets(variant) \ {p} :
       /\ params' = [params EXCEPT !.p = pp]
       /\ p' = pp
  /\ effParams' = params'
  /\ \E seed \in Seeds :
       \E c \in {initInto(heap, stateRef, variant, gridN, seed, density)} :
           /\ heap' = Collect(c.heap, c.ret)
           /\ stateRef' = c.ret
  /\ steps' = 0
  /\ LoopEffect(TRUE, running, raf)
  /\ event' = "params"
  /\ UNCHANGED <<variant, density, wr, sr, W_OFF, S_OFF, prev, N, gridN, used, call,
                 running, tick, metrics, history, baseState, baseQueue>>

\* The component after mounting (src/App.jsx: before its effect has run), on the
\* grids of the model, with the radius 0
LoopStarts(var) ==
  IF var = "app"
    THEN {[n |-> 1, g |-> Uniform(1, 0, 0, 0), dens |-> 15]}
    ELSE {[n |-> n, g |-> initState(var, n, DefaultSeed, DefaultDensity),
           dens |-> DefaultDensity] : n \in GridSizes(var)}

InitReact ==
  /\ variant \in {"v2", "lin3", "lin1", "app"}
  /\ \E sg \in LoopStarts(variant) : InitWith(sg, PRESETS(variant, "Spots").p, 0, 0)

NextReact ==
  \/ LoopFrame
  \/ Render
  \/ ClickRun
  \/ ClickStep
  \/ ClickReset
  \/ ClickGridSize
  \/ ClickPresetLoop
  \/ MountApp
  \/ AppLoopFrame
  \/ AppSlider

\* The render React has scheduled comes; nothing else is bound to happen
SpecReact == InitReact /\ [][NextReact]_vars /\ WF_vars(Render)


\* ---- what the claims speak of ----------------------------------------------------
\* The current grid, and the grid the last step was computed from
Cur == Deref(heap, stateRef)
Prev == Deref(heap, FreshIds(stateRef))

WMax(var) == IF var = "v2" THEN 2 * Q ELSE Q

InDomain(g, n, var) ==
  /\ DOMAIN g.v = Cells(n) /\ DOMAIN g.w = Cells(n) /\ DOMAIN g.s = Cells(n)
  /\ \A i \in Cells(n) : /\ g.v[i] \in 0..Q
                         /\ g.s[i] \in 0..Q
                         /\ g.w[i] \in 0..WMax(var)

\* C1 (domain invariant): after any number of steps every cell of v and of σ is
\* in [0,1] and every cell of w is in [0,1] (linear variants) or [0,2] (part_002).
C1_Domain == InDomain(Cur, N, variant)

\* A step has clamped: a v cell that was below 1 is at the ceiling and a w cell
\* that held water is at the floor.
C1_Witness ==
  /\ steps >= 1
  /\ \E i \in Cells(N) : Cur.v[i] = Q /\ Prev.v[i] < Q
  /\ \E i \in Cells(N) : Cur.w[i] = 0 /\ Prev.w[i] > 0

\* C3 (frame of caStep): a call returns three arrays that were not live before
\* it, and leaves the arrays of the state passed in, the parameter set and both
\* offset lists as they were.
C3_Frame ==
  [][steps' = steps + 1 =>
       /\ \A id \in Live(stateRef) : heap'[id] = heap[id]
       /\ Live(stateRef') \cap Live(stateRef) = {}
       /\ Cardinality(Live(stateRef')) = 3
       /\ p' = p /\ W_OFF' = W_OFF /\ S_OFF' = S_OFF]_vars

\* A step whose result differs from the grid it was computed from, which is
\* still in the heap.
C3_Witness ==
  /\ steps >= 1
  /\ InDomain(Prev, N, variant)
  /\ Cur.v # Prev.v /\ Cur.w # Prev.w

\* The grid translated by (dx, dy) mod n: the cell (x, y) moves to (x+dx, y+dy)
Shift(arr, n, dx, dy) ==
  [i \in Cells(n) |-> arr[(((i \div n) - dy) % n) * n + (((i % n) - dx) % n)]]

ShiftState(g, n, dx, dy) ==
  [v |-> Shift(g.v, n, dx, dy), w |-> Shift(g.w, n, dx, dy), s |-> Shift(g.s, n, dx, dy)]

\* C4 (toroidal symmetry): stepping the grid translated by (dx, dy) mod N gives
\* the translation by (dx, dy) of the stepped grid, in all three fields.
C4_Toroidal ==
  \A dx \in 0..(N - 1), dy \in 0..(N - 1) :
    caStepArrays(variant, ShiftState(Cur, N, dx, dy), p, N, W_OFF, S_OFF)
      = ShiftState(caStepArrays(variant, Cur, p, N, W_OFF, S_OFF), N, dx, dy)

\* A grid that a translation changes, stepped with a water kernel that wraps
\* around the edge, the step changing it.
C4_Witness ==
  /\ N >= 3 /\ wr >= 2 /\ sr >= 1
  /\ ShiftState(Cur, N, 1, 0) # Cur /\ ShiftState(Cur, N, 0, 1) # Cur
  /\ caStepArrays(variant, Cur, p, N, W_OFF, S_OFF).w # Cur.w
  /\ caStepArrays(variant, Cur, p, N, W_OFF, S_OFF).v # Cur.v

\* Every cell of a field holds the same value, in each of the three fields
IsUniform(g, n) ==
  \A i \in Cells(n) : g.v[i] = g.v[0] /\ g.w[i] = g.w[0] /\ g.s[i] = g.s[0]

ZeroRun == p = ZeroRates(variant) /\ IsUniform(Cur, N)

\* C5, as stated (conservation-absence): with R = E = alpha = mort = eps = 0 a
\* step of a uniform grid leaves every cell of w and of v as it was.
C5_Original ==
  [][(steps' = steps + 1 /\ ZeroRun) => (Cur'.v = Cur.v /\ Cur'.w = Cur.w)]_vars

\* C5, amended: such a step leaves every cell of v as it was, in every variant;
\* it leaves every cell of w as it was in part_002 and, in the linear variants,
\* where v = 0 or w = 0; elsewhere in the linear variants w does not grow.
C5_Amended ==
  [][(steps' = steps + 1 /\ ZeroRun) =>
       /\ Cur'.v = Cur.v
       /\ (variant = "v2" \/ Cur.v[0] = 0 \/ Cur.w[0] = 0) => Cur'.w = Cur.w
       /\ \A i \in Cells(N) : Cur'.w[i] <= Cur.w[i]]_vars

\* part_002 has stepped a uniform grid that holds vegetation and water, with the
\* rates zeroed and a water kernel of several cells: nothing moved.
C5_Witness ==
  /\ steps >= 1 /\ variant = "v2" /\ wr >= 1 /\ N >= 2
  /\ p = ZeroRates(variant)
  /\ IsUniform(Prev, N) /\ Prev.v[0] > 0 /\ Prev.w[0] > 0
  /\ Cur.v = Prev.v /\ Cur.w = Prev.w

\* The set of the elements of a sequence
Range(f) == {f[k] : k \in DOMAIN f}

\* The integer pairs of the closed disk of radius r
Disk(r) ==
  {d \in ((-(r + 1))..(r + 1)) \X ((-(r + 1))..(r + 1)) : d[1] * d[1] + d[2] * d[2] <= r * r}

\* C6 (buildOffsets): for r >= 0 the list holds exactly the pairs (dx, dy) with
\* dx^2 + dy^2 <= r^2, each once; it holds (0,0) and its length is >= 1.
C6_Offsets ==
  (call.fn = "buildOffsets" /\ call.r >= 0) =>
     /\ Range(call.ret) = Disk(call.r)
     /\ Len(call.ret) = Cardinality(Disk(call.r))
     /\ <<0, 0>> \in Range(call.ret)
     /\ Len(call.ret) >= 1

\* buildOffsets(2) has returned: the 13 pairs, the rim (2,0) among them and the
\* corner (2,2) not
C6_Witness ==
  /\ call.fn = "buildOffsets" /\ call.r = 2
  /\ Len(call.ret) = 13
  /\ <<2, 0>> \in Range(call.ret) /\ <<2, 2>> \notin Range(call.ret)

\* Two cells of the torus of side n that share an edge
Adjacent(i, j, n) ==
  \/ (i \div n = j \div n) /\ ((i % n) - (j % n)) % n \in {1, n - 1}
  \/ (i % n = j % n) /\ ((i \div n) - (j \div n)) % n \in {1, n - 1}

\* The cells of the mask that a path of adjacent cells of the mask joins to S
RECURSIVE Reach(_, _, _)
Reach(S, mask, n) ==
  LET T == S \cup {j \in mask : \E i \in S : Adjacent(i, j, n)}
  IN  IF T = S THEN S ELSE Reach(T, mask, n)

\* The mask {v >= 0.15} and its 4-connected components on the torus
Vegetated(v, n) == {i \in Cells(n) : v[i] * 100 >= 15 * Q}
Components(v, n) == {Reach({i}, Vegetated(v, n), n) : i \in Vegetated(v, n)}
LargestOf(cs) == IF cs = {} THEN 0 ELSE CHOOSE k \in {Cardinality(c) : c \in cs} :
                                            \A c \in cs : Cardinality(c) <= k

IsClusterCall == call.fn \in {"computeMetrics", "computeClusterMetrics"}

\* C7 (cluster counting): the clusters reported are the 4-connected toroidal
\* components of {v >= 0.15}: their number, the size of the largest, and (where
\* a mean is reported) vegetated cells / components, all 0 on a bare grid; the
\* 2x2 block of 0.9 on the 5x5 grid is 1 cluster, max 4, mean 4.
C7_Clusters ==
  IsClusterCall =>
    LET cs == Components(call.g.v, call.n)
        vg == Vegetated(call.g.v, call.n)
    IN  /\ call.ret.numClusters = Cardinality(cs)
        /\ call.ret.maxCluster = LargestOf(cs)
        /\ call.fn = "computeClusterMetrics" =>
             /\ call.ret.meanCluster[1] * Cardinality(cs)
                  = Cardinality(vg) * call.ret.meanCluster[2]
             /\ vg = {} => call.ret.meanCluster[1] = 0
        /\ (call.n = 5 /\ \E bx, by \in 0..4 : call.g = Block(5, bx, by)) =>
             /\ call.ret.numClusters = 1 /\ call.ret.maxCluster = 4
             /\ call.fn = "computeClusterMetrics" =>
                  call.ret.meanCluster[1] = 4 * call.ret.meanCluster[2]

\* The block that wraps around both edges of the 5x5 grid, measured by part_003:
\* one cluster of four cells
C7_Witness ==
  /\ call.fn = "computeClusterMetrics" /\ call.n = 5 /\ call.g = Block(5, 4, 4)
  /\ call.ret.numClusters = 1 /\ call.ret.maxCluster = 4
  /\ call.ret.meanCluster = <<4, 1>>

UniformV(g, n) == \A i \in Cells(n) : g.v[i] = g.v[0]

\* C8 (variance zero => autocorrelation zero): of a grid whose v is the same in
\* every cell computeMetrics returns vvar = 0 and moran = 0 (fractions of a
\* positive denominator: not 0/0), and it does not throw.
C8_ZeroVariance ==
  (call.fn = "computeMetrics" /\ UniformV(call.g, call.n)) =>
     /\ ~call.threw
     /\ call.ret.vvar[1] = 0 /\ call.ret.vvar[2] > 0
     /\ call.ret.moran[1] = 0 /\ call.ret.moran[2] > 0

\* computeMetrics has measured a grid of several cells whose v is 0.5 everywhere
C8_Witness ==
  /\ call.fn = "computeMetrics" /\ call.n >= 2
  /\ UniformV(call.g, call.n) /\ call.g.v[0] = Q \div 2
  /\ call.ret.moran = <<0, 1>> /\ call.ret.vm = <<(Q \div 2) * call.n * call.n, Q * call.n * call.n>>

\* A call with an invalid configuration: a negative radius, a grid side <= 0, a
\* parameter set that lacks a field
InvalidCall ==
  \/ call.fn = "buildOffsets" /\ call.r < 0
  \/ call.fn = "initState" /\ call.n <= 0
  \/ call.fn = "caStep"

\* C9, as stated (invalid configuration fails fast): a call with an invalid
\* configuration ends in an error, never in a result.
C9_FailsFast == InvalidCall => call.threw

\* C2, as stated (init determinism): two invocations of the initialiser with
\* identical arguments return identical v, w and soil arrays.
C2_Deterministic ==
  (/\ call.fn \in {"initState", "init"} /\ prev.fn = call.fn
   /\ prev.var = call.var /\ prev.n = call.n /\ prev.seed = call.seed /\ prev.dens = call.dens)
  => call.ret = prev.ret

\* C10 (radius 0): with an offset list built from radius 0 the neighbourhood sum
\* of every cell is the cell's own value, so the mean is the cell (the flow is 0,
\* vSeed is v); and no offset list in use is empty, so no mean divides by 0.
C10_RadiusZero ==
  /\ Len(W_OFF) >= 1 /\ Len(S_OFF) >= 1
  /\ wr = 0 => /\ Len(W_OFF) = 1
               /\ \A i \in Cells(N) : /\ NSum(Cur.w, N, i % N, i \div N, W_OFF) = Cur.w[i]
                                      /\ NSum(Cur.v, N, i % N, i \div N, W_OFF) = Cur.v[i]
  /\ sr = 0 => /\ Len(S_OFF) = 1
               /\ \A i \in Cells(N) : NSum(Cur.v, N, i % N, i \div N, S_OFF) = Cur.v[i]

\* A grid of several unequal cells has been stepped with both radii 0
C10_Witness ==
  /\ steps >= 1 /\ wr = 0 /\ sr = 0 /\ N >= 3
  /\ \E i, j \in Cells(N) : Prev.w[i] # Prev.w[j] /\ Prev.v[i] # Prev.v[j]
  /\ Cur.w # Prev.w

\* x_{k+1} = (1664525 * x_k + 1013904223) mod 2^32 on the unsigned word x:
\* x * 26125 + (x * 25) * 2^16 + 1013904223, the low 32 bits
Recurrence(x) ==
  LET lo == BigMul(Big(x), 26125)
      hi == BigMul(Big(x), 25)
      t  == BigAdd(BigAdd(lo, <<0, hi[3], 0>>), <<0, 15470, 62303>>)
  IN  <<t[2], t[3]>>

RECURSIVE RecurrenceAt(_, _)
RecurrenceAt(x0, k) == IF k = 0 THEN x0 ELSE Recurrence(RecurrenceAt(x0, k - 1))

\* C11 (LCG state sequence): the k-th state of the generator of initState, read
\* as an unsigned 32-bit value, is x_k of the recurrence x_0 = seed mod 2^32,
\* x_{k+1} = (1664525 x_k + 1013904223) mod 2^32; it is also what LcgNext gives.
C11_Sequence ==
  call.fn = "rng" =>
    /\ call.s = RecurrenceAt(ToWord(call.seed), call.k)
    /\ call.k > 0 => call.s = LcgNext(prev.s)

\* The generator seeded with -1 has made several draws, the one before the last
\* from a negative int32 state, and its state is negative again
C11_Witness ==
  /\ call.fn = "rng" /\ call.seed = -1 /\ call.k >= 5
  /\ prev.s[1] >= B16 \div 2 /\ call.s[1] >= B16 \div 2

\* C12 (bounded history): the history never holds more than 300 records, and
\* an append to a full history drops the oldest record and keeps the others in
\* their order.
C12_Bounded ==
  /\ Len(history) <= 300
  /\ \A i \in 1..(Len(history) - 1) : history[i].t < history[i + 1].t

\* A step of the kernel was executed
Stepped == steps' = steps + 1

C14_OffsetsTrack ==
  used # <<>> /\ variant \in {"v2", "lin1"} =>
    /\ used[1].W_OFF = buildOffsets(used[1].wr)
    /\ used[1].S_OFF = buildOffsets(used[1].sr)

\* A step was made with a water radius that is not the one the App started with
C14_Witness ==
  /\ variant \in {"v2", "lin1"} /\ edits > 0
  /\ used # <<>>
  /\ used[1].wr # PRESETS(variant, "Spots").wr
  /\ used[1].W_OFF # buildOffsets(PRESETS(variant, "Spots").wr)

\* C17 (parameter changes do not touch the grid): a change of the Parameter Set
\* through a slider or a preset, and the effects that follow it, leave the grid
\* and the tick counter as they are.
C17_GridUntouched ==
  [][params' # params \/ effParams' # effParams =>
       /\ Deref(heap', stateRef') = Deref(heap, stateRef)
       /\ tick' = tick]_vars

\* |s/Q - f|, times Q * f[2], for a fraction f
DistTo(f, s) ==
  LET d == s * f[2] - f[1] * Q IN IF d < 0 THEN -d ELSE d

\* C15 (soil relaxation under vegetation): at a cell whose vegetation is held at
\* a constant positive value, no soil update takes the soil quality further from
\* gp / (gp + gm), and a soil quality of gp / (gp + gm) stays there.
C15_Relaxes ==
  call.fn = "soil" /\ call.k > 0 /\ call.v > 0 =>
    DistTo(sigStarVeg(call.pp), call.s) <= DistTo(sigStarVeg(call.pp), prev.s)

\* The soil update of a bare cell was applied with a degradation rate in (0, 1]
BareSoilStep ==
  /\ call.fn = "soil" /\ call.k > 0 /\ call.v = 0
  /\ call.pp.gm > 0 /\ call.pp.gm <= PQ

\* C16 as stated (soil relaxation on bare ground): with v = 0 at every step and
\* gm in (0, 1], the soil quality never increases and strictly decreases while
\* it is positive, so that 0 is its only fixed point.
C16_Original ==
  BareSoilStep =>
    /\ call.s <= prev.s
    /\ prev.s > 0 => call.s < prev.s

\* C16 as the code has it: the soil quality never increases, 0 stays 0, and the
\* soil quality strictly decreases wherever the loss gm * σ is at least the
\* spacing of the stored values (one lattice step).
C16_Amended ==
  BareSoilStep =>
    /\ call.s <= prev.s
    /\ prev.s = 0 => call.s = 0
    /\ call.pp.gm * prev.s >= PQ => call.s < prev.s

\* A bare cell's soil quality has gone down step after step and is still positive
C16_Witness ==
  /\ BareSoilStep /\ call.k >= 3
  /\ 0 < call.s /\ call.s < prev.s

\* C18 (synchronous update, order independence): in every variant, src/App.jsx
\* with its scratch arrays included, a step that visits the cells in any order
\* yields the Grid State the row-major step yields, and no cell's computation
\* reads a value written earlier in the same step.
C18_OrderIndependent ==
  call.fn = "stepInOrder" => call.ret = call.seq /\ ~call.dirty

\* A step of src/App.jsx on a grid of side >= 2, with the neighbours read, made
\* in an order other than row-major, that changed the vegetation
C18_Witness ==
  /\ call.fn = "stepInOrder" /\ call.var = "app" /\ call.n >= 2
  /\ call.order # [k \in 1..(call.n * call.n) |-> k - 1]
  /\ call.ret.v # call.g.v

\* C19 (toroidal addressing is always in bounds): for every cell (x, y) of an
\* N x N grid and every offset (dx, dy) of buildOffsets(r), r >= 0, the index
\* expression is in 0..N*N-1 and is the index of the cell
\* ((x + dx) mod N, (y + dy) mod N).
C19_Original ==
  call.fn = "Idx" =>
    /\ call.ret \in 0..(call.n * call.n - 1)
    /\ call.ret = ((call.y + call.dy) % call.n) * call.n + ((call.x + call.dx) % call.n)

\* C19, amended: the same for every radius r with 0 <= r <= N; a larger radius
\* has offsets below -N, whose remainder is negative.
C19_Amended ==
  (call.fn = "Idx" /\ call.r <= call.n) =>
    /\ call.ret \in 0..(call.n * call.n - 1)
    /\ call.ret = ((call.y + call.dy) % call.n) * call.n + ((call.x + call.dx) % call.n)

\* The index has been computed for the offset (-N, 0) of the radius N at a cell
\* of the first column, the furthest wrap the amended claim covers
C19_Witness ==
  /\ call.fn = "Idx" /\ call.n >= 2 /\ call.r = call.n
  /\ call.x = 0 /\ call.dx = -call.n /\ call.dy = 0
  /\ call.ret = call.y * call.n

\* The right and the lower neighbour of cell i on the torus
RightOf(i, n) == (i \div n) * n + (((i % n) + 1) % n)
DownOf(i, n) == (((i \div n) + 1) % n) * n + (i % n)

\* N*N * (v_i - mean), in lattice units
DevFromMean(v, n, i) == n * n * v[i] - SeqSum([k \in 1..(n * n) |-> v[k - 1]])

\* A fraction in lowest terms
Reduced(f) ==
  LET a == IF f[1] < 0 THEN -f[1] ELSE f[1]
      g == GCD(a, f[2])
  IN  <<f[1] \div g, f[2] \div g>>

\* The sum over the cells i of (v_i - m)(v_right(i) - m) + (v_i - m)(v_down(i) - m)
\* over 2 N^2 times the population variance, the common factors cancelled
TwoPairMoran(v, n) ==
  LET num == SeqSum([k \in 1..(n * n) |->
                       DevFromMean(v, n, k - 1)
                       * (DevFromMean(v, n, RightOf(k - 1, n))
                          + DevFromMean(v, n, DownOf(k - 1, n)))])
      sqs == SeqSum([k \in 1..(n * n) |->
                       DevFromMean(v, n, k - 1) * DevFromMean(v, n, k - 1)])
  IN  <<num, 2 * sqs>>

\* C20 (two-pair autocorrelation): whenever the variance of v is positive, the
\* moran that computeMetrics reports is the sum, over all cells i, of
\* (v_i - mean)(v_right(i) - mean) + (v_i - mean)(v_down(i) - mean), right and
\* down taken on the torus, divided by 2 N^2 times the population variance.
C20_TwoPair ==
  (call.fn = "computeMetrics" /\ call.ret.vvar[2] > 0 /\ call.ret.vvar[1] > 0) =>
     Reduced(call.ret.moran) = Reduced(TwoPairMoran(call.g.v, call.n))

\* computeMetrics has measured a seeded grid of side 3 whose right-hand and lower
\* neighbours differ, with a negative autocorrelation
C20_Witness ==
  /\ call.fn = "computeMetrics" /\ call.n = 3
  /\ call.ret.vvar[1] > 0 /\ call.ret.moran[1] < 0
  /\ \E i \in Cells(3) : call.g.v[RightOf(i, 3)] # call.g.v[DownOf(i, 3)]

\* The extraction has left its for loop
FloodDone == call.fn = "flood" /\ ~call.inFill /\ call.start >= call.n * call.n

\* C22 (flood fill work bound and termination): during one cluster extraction
\* every cell is pushed onto the stack at most once, a pushed cell is marked
\* visited and has v >= 0.15, and the extraction comes to its end on every
\* grid, the sides 1 and 2 included.
C22_FloodBound ==
  /\ [](call.fn = "flood" =>
          \A i \in Cells(call.n) :
            /\ call.pushes[i] <= 1
            /\ Count(call.q, i) <= call.pushes[i]
            /\ call.pushes[i] = 1 => (i \in call.visited /\ AtLeastThr(call.v[i])))
  /\ (call.fn = "flood") ~> FloodDone

\* An extraction has ended on a fully vegetated grid of side 2, where every
\* cell meets each neighbour twice: one cluster of four cells, each pushed once
C22_Witness ==
  /\ FloodDone /\ call.n = 2
  /\ call.sizes = <<4>>
  /\ \A i \in Cells(2) : call.pushes[i] = 1
  /\ call.sizes = clusterSizes(call.v, call.n)

\* C24 (density extremes): every draw rng() of initState is below 1; a density
\* of 0 gives a grid with no vegetated cell and a density of 1 a grid in which
\* every cell is vegetated, for every seed.
C24_Extremes ==
  /\ (call.fn = "rng" /\ call.k >= 1) => BigLess(Big(call.s), BigM)
  /\ (call.fn = "initState" /\ call.n >= 1 /\ call.dens = 0) =>
        \A i \in Cells(call.n) : call.ret.v[i] = 0
  /\ (call.fn = "initState" /\ call.n >= 1 /\ call.dens = 100) =>
        \A i \in Cells(call.n) : call.ret.v[i] > 0

\* A stored float against the bound c/100, and against another float
F32AtLeast(f, c) == f.m * 25 >= c * Pow2(f.k - 2)
F32AtMost(f, c) == f.m * 25 <= c * Pow2(f.k - 2)
F32Leq(f, g) == f.k > g.k \/ (f.k = g.k /\ f.m <= g.m)

\* The float nearest to c/100
FloatOf(c) == Fround(<<0, 0, 0, c>>, <<0, 0, 0, 100>>)

Within(f, lo, hi) == F32AtLeast(f, lo) /\ F32AtMost(f, hi)
WithinFloats(f, lo, hi) == F32Leq(FloatOf(lo), f) /\ F32Leq(f, FloatOf(hi))

\* C23 (initial state shape), as stated: initState of part_002 returns three
\* arrays of N*N cells; every v is 0 or in [0.2, 0.8]; a vegetated cell has w in
\* [0.10, 0.25] and soil in [0.40, 0.80], a bare cell w in [0.45, 0.65] and soil
\* in [0.10, 0.30].
C23_Original ==
  call.fn = "initState32" =>
    /\ \A f \in {"v", "w", "s"} : DOMAIN call.ret[f] = Cells(call.n)
    /\ \A i \in Cells(call.n) :
         LET c == [f \in {"v", "w", "s"} |-> call.ret[f][i]]
         IN  IF c.v = F32Zero
               THEN Within(c.w, 45, 65) /\ Within(c.s, 10, 30)
               ELSE Within(c.v, 20, 80) /\ Within(c.w, 10, 25) /\ Within(c.s, 40, 80)

\* C23, amended: the same with every bound replaced by the float nearest to it,
\* which is what a Float32Array cell holds when the draw is at its end.
C23_Amended ==
  call.fn = "initState32" =>
    /\ \A f \in {"v", "w", "s"} : DOMAIN call.ret[f] = Cells(call.n)
    /\ \A i \in Cells(call.n) :
         LET c == [f \in {"v", "w", "s"} |-> call.ret[f][i]]
         IN  IF c.v = F32Zero
               THEN WithinFloats(c.w, 45, 65) /\ WithinFloats(c.s, 10, 30)
               ELSE /\ WithinFloats(c.v, 20, 80)
                    /\ WithinFloats(c.w, 10, 25)
                    /\ WithinFloats(c.s, 40, 80)

\* initState has stored the float nearest to 0.8, which is above 0.8, in a
\* vegetated cell at the default density, and its water and soil beside it
C23_Witness ==
  /\ call.fn = "initState32" /\ call.n = 1 /\ call.dens = DefaultDensity
  /\ call.ret.v[0] = FloatOf(80)
  /\ ~F32AtMost(call.ret.v[0], 80)
  /\ Within(call.ret.w[0], 10, 25)

\* Cell i and every cell of its seed neighbourhood are bare in the arrays v
BareAround(v, n, soff, i) ==
  /\ v[i] = 0
  /\ \A k \in 1..Len(soff) : v[Idx(i % n, i \div n, soff[k][1], soff[k][2], n)] = 0

\* C25 (bare desert is absorbing): a cell with v = 0 whose seed neighbourhood has
\* v = 0 throughout still has v = 0 after one step, whatever the parameter set;
\* so a grid that is bare everywhere stays bare everywhere.
C25_BareAbsorbing ==
  [][steps' = steps + 1 =>
       \A i \in Cells(N) :
         BareAround(heap[stateRef.v], N, S_OFF, i) => heap'[stateRef'.v][i] = 0]_vars

\* Two steps on: a cell that was bare among bare seed neighbours before the last
\* step is still bare, on a grid that bears vegetation elsewhere and with
\* seeding from the neighbours (radius 1, eps > 0)
C25_Witness ==
  /\ steps = MaxSteps /\ sr = 1 /\ Get(p, "eps") > 0
  /\ \E i \in Cells(N) : BareAround(Prev.v, N, S_OFF, i) /\ Cur.v[i] = 0
  /\ \E j \in Cells(N) : Cur.v[j] > 0

\* |num| <= den for a fraction <<num, den>>
AbsAtMostOne(f) == Abs(f[1]) <= f[2]

\* C30 (autocorrelation range), as stated: for every grid with positive variance
\* of v the moran that computeMetrics returns lies in [-1, 1].  (The quotient of
\* two doubles is above 1 in magnitude exactly when the dividend is.)
C30_Original ==
  /\ (call.fn = "computeMetrics" /\ call.ret.vvar[2] > 0 /\ call.ret.vvar[1] > 0) =>
        AbsAtMostOne(call.ret.moran)
  /\ (call.fn = "computeMetrics64" /\ call.ret.vvar # <<0, 0, 0, 0>>) =>
        ~Mag4Less(call.ret.den, call.ret.moran.mag)

\* C30, amended: in exact arithmetic the value lies in [-1, 1]; as computed in
\* doubles its magnitude exceeds 1 by less than 10^-9 (here: the dividend
\* exceeds the divisor by less than 2^-30 of it).
C30_Amended ==
  /\ (call.fn = "computeMetrics" /\ call.ret.vvar[2] > 0 /\ call.ret.vvar[1] > 0) =>
        AbsAtMostOne(call.ret.moran)
  /\ (call.fn = "computeMetrics64" /\ call.ret.vvar # <<0, 0, 0, 0>>) =>
        \/ ~Mag4Less(call.ret.den, call.ret.moran.mag)
        \/ LET over == Mag4Sub(call.ret.moran.mag, call.ret.den)
           IN  over[1] = 0 /\ over[2] = 0
               /\ Mag4Less(Mag4Scale(Mag4Scale(over, Pow2(14)), Pow2(14)), call.ret.den)

\* computeMetrics has measured the checkerboard of the floats 1 and 0.05 on the
\* side 2: the sum of the products is negative and larger in magnitude than
\* moranC * vvar
C30_Witness ==
  /\ call.fn = "computeMetrics64"
  /\ call.v[0] = [m |-> Pow2(23), k |-> 23] /\ call.v[3] = call.v[0]
  /\ call.v[1] = FloatOf(5) /\ call.v[2] = call.v[1]
  /\ call.ret.moran.neg
  /\ Mag4Less(call.ret.den, call.ret.moran.mag)

\* A render has run the updater of a metrics tick: a record is appended to the
\* history, or the metrics shown are replaced by a record
Appended == history' # <<>> /\ history' # history
Shown == metrics' # <<>> /\ metrics' # metrics

\* C26 (metrics belong to their tick): a history record with time t, and the
\* metrics shown with the tick t, are computed from the Grid State that exactly
\* t steps since the last reset have produced: when the record is made, the
\* state measured (stateRef.current) is the state after steps steps, and t = steps.
C26_MetricsOfTick ==
  [][HasTick(variant) => /\ Appended => history'[Len(history')].t = steps'
                         /\ Shown => tick' = steps']_vars

\* The grids initState can have made for the App, on its side
FreshGrids == {ResetGrids[a] : a \in {variant} \X {gridN} \X Seeds \X {density}}

\* C29 (reset postcondition): when a click on Reset has been handled and
\* rendered, running is false, the tick counter is 0, the history is empty,
\* metrics is null and the Grid State is a freshly initialised one; and no
\* history record of the run before the reset is in the history afterwards:
\* every record has a time that the steps since the reset have reached (the
\* updates of a reset made by an effect wait for their render: ResetPending).
ResetPending == baseQueue.history # <<>>

C29_ResetPost ==
  HasTick(variant) =>
    /\ event = "reset" => /\ ~running /\ tick = 0 /\ history = <<>> /\ metrics = <<>>
                          /\ Cur \in FreshGrids
    /\ ~ResetPending => \A i \in 1..Len(history) : history[i].t <= steps

\* C28 (grid size consistency): in part_002, at every call of caStep and of
\* computeMetrics the three arrays of the state passed have the length N * N
\* for the N passed, and the water radius in use is smaller than that N.
C28_SizeConsistent ==
  (variant = "v2" /\ call.fn \in {"doStep:caStep", "doStep:computeMetrics"}) =>
     /\ call.len = {call.n * call.n}
     /\ wr < call.n

\* C27 (single animation loop): under every interleaving of run / pause clicks,
\* resets, parameter changes, grid-size changes and frame callbacks, at most one
\* requestAnimationFrame callback is pending, and it is the one animRef.current
\* (frame in src/App.jsx) refers to.
C27_SingleLoop == Cardinality(raf) <= 1 /\ raf \subseteq {animRef}

\* The loop effect has been run again by a parameter change while a callback of
\* the running loop was pending, and one callback is pending
C27_Witness ==
  /\ event = "params" /\ variant \in {"lin1", "app"}
  /\ (variant = "lin1" => running)
  /\ Cardinality(raf) = 1

\* The grid, and what counts as a command on it: a click on Step, a click on
\* Reset, and the controls that call doReset / reset (the grid-size buttons of
\* part_002, the preset buttons of part_001), with the render of the updates of
\* such a doReset
GridChanged == Deref(heap', stateRef') # Deref(heap, stateRef)
Commanded ==
  \/ event' \in {"step", "reset", "size", "params"}
  \/ event' = "render" /\ baseQueue.history # <<>>
Paused == HasRunning(variant) /\ ~running /\ ~running'

\* C21 (pause stops the engine): while running is false no animation-frame
\* callback is scheduled, and the Grid State and the tick counter change only
\* through a step or a reset.
C21_PauseStops ==
  /\ [](HasRunning(variant) /\ ~running => raf = {})
  /\ [][Paused => /\ GridChanged => Commanded
                  /\ tick' # tick => Commanded]_vars

====
